---- MODULE Spec2Model ----
(***************************************************************************)
(* Verification model of the Airbnb e-mail extraction engine               *)
(* (src/ml/email-classifier.py, src/ml/ml_extractor.py).                   *)
(*                                                                         *)
(* Conventions                                                             *)
(*  - A calendar date is a record [y, m, d]; None (all zero) is Python's   *)
(*    None.  A date string "YYYY-MM-DD" built by an f-string is kept as    *)
(*    the same record: the f-string does no validation, so the record may  *)
(*    denote no calendar date (ValidDate tells).                           *)
(*  - A Python exception that leaves a function is the value Raised.       *)
(*  - src/ml/ml_extractor.py is stored with its non-ASCII bytes mis-       *)
(*    decoded: the yen sign stands for the backslash, and the euro sign    *)
(*    and the Swedish letters appear as multi-character sequences.  The    *)
(*    model reads the regular expressions with the backslash, the euro     *)
(*    sign and the letters restored.                                       *)
(***************************************************************************)
EXTENDS Integers, Sequences, FiniteSets, TLC

\* ------------------------------------------------------------------------
\* Bounds of the model
\* ------------------------------------------------------------------------
FirstAnchorYear == 2024
LastAnchorYear == 2025

\* ------------------------------------------------------------------------
\* Calendar (datetime.date)
\* ------------------------------------------------------------------------
None == [y |-> 0, m |-> 0, d |-> 0]

Raised == -1

IsLeap(y) == (y % 4 = 0) /\ ((y % 100 # 0) \/ (y % 400 = 0))

DaysInMonth(y, m) ==
  IF m = 2 THEN (IF IsLeap(y) THEN 29 ELSE 28)
  ELSE IF m \in {4, 6, 9, 11} THEN 30 ELSE 31

\* datetime(y, m, d) succeeds exactly on these
ValidYMD(y, m, d) == m \in 1..12 /\ d >= 1 /\ d <= DaysInMonth(y, m)

ValidDate(dt) == ValidYMD(dt.y, dt.m, dt.d)

RECURSIVE DaysBeforeMonth(_, _)
DaysBeforeMonth(y, m) ==
  IF m <= 1 THEN 0 ELSE DaysBeforeMonth(y, m - 1) + DaysInMonth(y, m - 1)

\* date.toordinal()
Ordinal(y, m, d) ==
  365 * (y - 1) + ((y - 1) \div 4) - ((y - 1) \div 100) + ((y - 1) \div 400)
    + DaysBeforeMonth(y, m) + d

\* (a - b).days
DaysBetween(a, b) == Ordinal(a.y, a.m, a.d) - Ordinal(b.y, b.m, b.d)

\* ------------------------------------------------------------------------
\* AirbnbEmailClassifier.get_reference_year
\* ------------------------------------------------------------------------
CrossYearThreshold == 300
BookingHorizon == 540

\* the anchor: email date, else mid-year of the scanning year, else today
reference_date(email_date, scanning_year, now) ==
  IF email_date # None
    THEN (IF ValidDate(email_date) THEN email_date ELSE now)
    ELSE IF scanning_year # 0
      THEN [y |-> scanning_year, m |-> 6, d |-> 15]
      ELSE now

\* a plausible slip: the cross-year branch keeps the anchor's year
get_reference_year_samebranch(email_date, month, day, scanning_year, now) ==
  LET ref == reference_date(email_date, scanning_year, now)
      ry == ref.y
  IN IF ~ValidYMD(ry, month, day) THEN Raised
     ELSE LET days_diff == Ordinal(ry, month, day) - Ordinal(ref.y, ref.m, ref.d)
          IN IF ref.m >= 11 /\ month <= 2 /\ days_diff < -CrossYearThreshold
               THEN ry
             ELSE IF days_diff < 0
               THEN IF ~ValidYMD(ry + 1, month, day) THEN Raised
                    ELSE LET next_year_diff ==
                               Ordinal(ry + 1, month, day) - Ordinal(ref.y, ref.m, ref.d)
                         IN IF 1 <= next_year_diff /\ next_year_diff <= BookingHorizon
                              THEN ry + 1 ELSE ry
             ELSE IF days_diff > BookingHorizon THEN ry - 1
             ELSE ry

\* a plausible slip: only the next half year counts as a reasonable advance
get_reference_year_halfyear(email_date, month, day, scanning_year, now) ==
  LET ref == reference_date(email_date, scanning_year, now)
      ry == ref.y
  IN IF ~ValidYMD(ry, month, day) THEN Raised
     ELSE LET days_diff == Ordinal(ry, month, day) - Ordinal(ref.y, ref.m, ref.d)
          IN IF ref.m >= 11 /\ month <= 2 /\ days_diff < -CrossYearThreshold
               THEN ry + 1
             ELSE IF days_diff < 0
               THEN IF ~ValidYMD(ry + 1, month, day) THEN Raised
                    ELSE LET next_year_diff ==
                               Ordinal(ry + 1, month, day) - Ordinal(ref.y, ref.m, ref.d)
                         IN IF 1 <= next_year_diff /\ next_year_diff <= 180
                              THEN ry + 1 ELSE ry
             ELSE IF days_diff > BookingHorizon THEN ry - 1
             ELSE ry

get_reference_year(email_date, month, day, scanning_year, now) ==
  LET ref == reference_date(email_date, scanning_year, now)
      ry == ref.y
  IN IF ~ValidYMD(ry, month, day) THEN Raised
     ELSE LET days_diff == Ordinal(ry, month, day) - Ordinal(ref.y, ref.m, ref.d)
          IN IF ref.m >= 11 /\ month <= 2 /\ days_diff < -CrossYearThreshold
               THEN ry + 1
             ELSE IF days_diff < 0
               THEN IF ~ValidYMD(ry + 1, month, day) THEN Raised
                    ELSE LET next_year_diff ==
                               Ordinal(ry + 1, month, day) - Ordinal(ref.y, ref.m, ref.d)
                         IN IF 1 <= next_year_diff /\ next_year_diff <= BookingHorizon
                              THEN ry + 1 ELSE ry
             ELSE IF days_diff > BookingHorizon THEN ry - 1
             ELSE ry

\* ------------------------------------------------------------------------
\* E-mail text
\*
\* A date written in the text ("13 juli 2025") is a token
\*   [d: day as written, mon: month number, full: month written in full
\*    ("juli") rather than abbreviated ("jul"), yr: year or 0 when absent].
\* The body is a record of the fragments the engine's patterns look for:
\*   comb   "Incheckning sön 13 juli tis 15 juli"        (<<>> or two tokens)
\*   inn    "Incheckning: sön 13 juli"                   (<<>> or one token)
\*   out    "Utcheckning: tis 15 juli"                   (<<>> or one token)
\*   pair   "sön 13 juli – tis 15 juli"                  (<<>> or two tokens)
\*   bare   further dates in running text: "13 juli"     (sequence of tokens)
\*   nights "N nätter", -1 when the body has no such mention
\*   money  the lines that carry amounts (see the money section)
\* Fragments are separated by text that none of the patterns matches.
\* ------------------------------------------------------------------------
Absent == -1

NoTok == [d |-> 0, mon |-> 0, full |-> FALSE, yr |-> 0]

\* "maj" has one spelling; every other month has a short and a full one
LongForm(tok) == tok.full /\ tok.mon # 5

\* f"{year}-{month}-{day.zfill(2)}"
DateStr(y, m, d) == [y |-> y, m |-> m, d |-> d]

Ctx(ed, sy, now) == [email_date |-> ed, scanning_year |-> sy, now |-> now]

GRY(ctx, m, d) == get_reference_year(ctx.email_date, m, d, ctx.scanning_year, ctx.now)

\* the ExtractedRecord before any field is found
EmptyData(email_type) ==
  [emailType |-> email_type, raised |-> FALSE,
   guestName |-> <<>>, checkInDate |-> None, checkOutDate |-> None,
   originalCheckInDate |-> None, originalCheckOutDate |-> None,
   nights |-> Absent,
   guestTotalEur |-> Absent, hostEarningsEur |-> Absent,
   hostEarningsSek |-> Absent, cleaningFeeEur |-> Absent,
   amount |-> Absent, currency |-> "none"]

Raise(dat) == [dat EXCEPT !.raised = TRUE]

\* data.get('checkInDate') is truthy
Has(dt) == dt # None

\* --- check-in date from the subject: "anländer 12 maj" (lines 404-413) ---
subject_checkin(dat, subject, ctx) ==
  IF dat.raised \/ subject.form # "confirm" \/ subject.tok = NoTok THEN dat
  ELSE LET year == GRY(ctx, subject.tok.mon, subject.tok.d)
       IN IF year = Raised THEN Raise(dat)
          ELSE [dat EXCEPT !.checkInDate = DateStr(year, subject.tok.mon, subject.tok.d)]

\* --- combined check-in/check-out pattern (lines 436-470) ---
combined_dates_step(dat, body, ctx) ==
  IF dat.raised \/ body.comb = <<>> THEN dat
  ELSE LET t1 == body.comb[1]
           t2 == body.comb[2]
           year1 == IF t1.yr # 0 THEN t1.yr ELSE GRY(ctx, t1.mon, t1.d)
       IN IF year1 = Raised THEN Raise(dat)
          ELSE LET d1 == [dat EXCEPT !.checkInDate = DateStr(year1, t1.mon, t1.d)]
                   g2 == IF t2.yr # 0 THEN t2.yr ELSE GRY(ctx, t2.mon, t2.d)
               IN IF g2 = Raised THEN Raise(d1)
                  ELSE LET year2 == IF t2.yr = 0 /\ t2.mon < t1.mon
                                      THEN year1 + 1 ELSE g2
                       IN [d1 EXCEPT !.checkOutDate = DateStr(year2, t2.mon, t2.d)]

\* --- individual check-in pattern (lines 472-484) ---
checkin_step(dat, body, ctx) ==
  IF dat.raised \/ Has(dat.checkInDate) \/ body.inn = <<>> THEN dat
  ELSE LET t == body.inn[1]
           year == IF t.yr # 0 THEN t.yr ELSE GRY(ctx, t.mon, t.d)
       IN IF year = Raised THEN Raise(dat)
          ELSE [dat EXCEPT !.checkInDate = DateStr(year, t.mon, t.d)]

\* --- individual check-out pattern (lines 486-511) ---
checkout_step(dat, body, ctx) ==
  IF dat.raised \/ Has(dat.checkOutDate) \/ body.out = <<>> THEN dat
  ELSE LET t == body.out[1]
       IN IF t.yr # 0
            THEN [dat EXCEPT !.checkOutDate = DateStr(t.yr, t.mon, t.d)]
            ELSE LET g == GRY(ctx, t.mon, t.d)
                 IN IF g = Raised THEN Raise(dat)
                    ELSE LET year ==
                               IF Has(dat.checkInDate) /\ ValidDate(dat.checkInDate)
                                  /\ t.mon < dat.checkInDate.m
                                 THEN g + 1 ELSE g
                         IN [dat EXCEPT !.checkOutDate = DateStr(year, t.mon, t.d)]

NeedsFallback(dat) ==
  ~Has(dat.checkInDate) \/ ~Has(dat.checkOutDate) \/ dat.checkInDate = dat.checkOutDate

\* what date_pair_pattern finds first in the body: the two dates of the
\* combined fragment, else those of the pair fragment
date_pair_match(body) ==
  IF body.comb # <<>> THEN body.comb ELSE body.pair

\* --- date pair pattern (lines 513-563) ---
\* The month alternation lists "jul" before "juli": a second month written in
\* full is matched by its abbreviation and the year after it is not captured.
date_pair_step(dat, body, ctx) ==
  IF dat.raised \/ ~NeedsFallback(dat) \/ date_pair_match(body) = <<>> THEN dat
  ELSE LET t1 == date_pair_match(body)[1]
           t2 == date_pair_match(body)[2]
           yr2 == IF LongForm(t2) THEN 0 ELSE t2.yr
           year1 == IF t1.yr # 0 THEN t1.yr ELSE GRY(ctx, t1.mon, t1.d)
       IN IF year1 = Raised THEN Raise(dat)
          ELSE LET year2 == IF yr2 # 0 THEN yr2
                            ELSE IF t2.mon < t1.mon THEN year1 + 1 ELSE year1
                   a == DateStr(year1, t1.mon, t1.d)
                   b == DateStr(year2, t2.mon, t2.d)
               IN IF ~ValidDate(a) \/ ~ValidDate(b) THEN dat
                  ELSE IF DaysBetween(a, b) <= 0
                    THEN [dat EXCEPT !.checkInDate = a, !.checkOutDate = b]
                    ELSE [dat EXCEPT !.checkInDate = b, !.checkOutDate = a]

\* --- pair-selection fallback (lines 565-695) ---
\* every date-like token of the body, in text order
BodyTokens(body) == body.comb \o body.inn \o body.out \o body.pair \o body.bare

RECURSIVE SelectSeq2(_, _)
\* the subsequence of s whose elements are in the set keep
SelectSeq2(s, keep) ==
  IF s = <<>> THEN <<>>
  ELSE (IF Head(s) \in keep THEN <<Head(s)>> ELSE <<>>) \o SelectSeq2(Tail(s), keep)

Range(s) == {s[i] : i \in 1..Len(s)}

\* year_specific_pattern: day, month as written, four-digit year
year_dates(body) ==
  SelectSeq2(BodyTokens(body), {tk \in Range(BodyTokens(body)) : tk.yr # 0})

\* all_dates_pattern: the alternation tries "jul" before "juli", so a month
\* written in full is matched by its abbreviation and the year is not captured
AllDatesView(tk) ==
  IF LongForm(tk) THEN [d |-> tk.d, mon |-> tk.mon, full |-> FALSE, yr |-> 0]
  ELSE [d |-> tk.d, mon |-> tk.mon, full |-> LongForm(tk), yr |-> tk.yr]

YearDatesView(tk) == [d |-> tk.d, mon |-> tk.mon, full |-> LongForm(tk), yr |-> tk.yr]

RECURSIVE MapAllDates(_)
MapAllDates(s) ==
  IF s = <<>> THEN <<>> ELSE <<AllDatesView(Head(s))>> \o MapAllDates(Tail(s))

RECURSIVE MapYearDates(_)
MapYearDates(s) ==
  IF s = <<>> THEN <<>> ELSE <<YearDatesView(Head(s))>> \o MapYearDates(Tail(s))

\* has_year_version: same day text and same month text among year_dates
has_year_version(v, yds) ==
  \E i \in 1..Len(yds) : yds[i].d = v.d /\ yds[i].mon = v.mon /\ yds[i].full = v.full

RECURSIVE without_year_version(_, _)
without_year_version(alls, yds) ==
  IF alls = <<>> THEN <<>>
  ELSE (IF has_year_version(Head(alls), yds) THEN <<>> ELSE <<Head(alls)>>)
         \o without_year_version(Tail(alls), yds)

combined_dates(body) ==
  LET yds == MapYearDates(year_dates(body))
  IN yds \o without_year_version(MapAllDates(BodyTokens(body)), yds)

\* get_reference_year runs outside the try block: a year-less token that is
\* no calendar date in the anchor's year raises out of the engine
FallbackRaises(cds, ctx) ==
  \E i \in 1..Len(cds) : cds[i].yr = 0 /\ GRY(ctx, cds[i].mon, cds[i].d) = Raised

\* parsed_dates: the valid dates, without duplicates
parsed_dates(cds, ctx) ==
  {dt \in {DateStr(IF cds[i].yr # 0 THEN cds[i].yr ELSE GRY(ctx, cds[i].mon, cds[i].d),
                   cds[i].mon, cds[i].d) : i \in 1..Len(cds)} : ValidDate(dt)}

Earliest(S) == CHOOSE a \in S : \A b \in S : DaysBetween(a, b) <= 0

RECURSIVE SortDates(_)
\* parsed_dates.sort(key=lambda x: x[0])
SortDates(S) ==
  IF S = {} THEN <<>> ELSE <<Earliest(S)>> \o SortDates(S \ {Earliest(S)})

MinNights == 1
MaxNights == 30
ExplicitYearBonus == 20
DifferentDayBonus == 10
SameYearBonus == 3
CrossYearBonus == 4
ShortStayBonus == 3
MediumStayBonus == 2

\* checkin_has_explicit_year: some year_dates entry has this day and month
has_explicit_year(dt, yds) ==
  \E i \in 1..Len(yds) : yds[i].d = dt.d /\ yds[i].mon = dt.m

AbsVal(x) == IF x < 0 THEN -x ELSE x

pair_score(ci, co, yds) ==
  LET nights == DaysBetween(co, ci)
  IN (IF has_explicit_year(ci, yds) /\ has_explicit_year(co, yds)
        THEN ExplicitYearBonus ELSE 0)
     + (IF ci.d # co.d THEN DifferentDayBonus ELSE 0)
     + (IF ci.y = co.y THEN SameYearBonus
        ELSE IF AbsVal(ci.y - co.y) = 1 /\ nights <= 14 THEN CrossYearBonus ELSE 0)
     + (IF 2 <= nights /\ nights <= 7 THEN ShortStayBonus
        ELSE IF 8 <= nights /\ nights <= 14 THEN MediumStayBonus ELSE 0)

NoPair == <<>>

RECURSIVE best_pair_loop(_, _, _, _, _)
\* the double loop over i < j, carrying best_pair and best_score
best_pair_loop(sorted, yds, i, j, best) ==
  IF i > Len(sorted) THEN best
  ELSE IF j > Len(sorted) THEN best_pair_loop(sorted, yds, i + 1, i + 2, best)
  ELSE LET ci == sorted[i]
           co == sorted[j]
           nights == DaysBetween(co, ci)
           score == pair_score(ci, co, yds)
           better == \/ score > best.score
                     \/ best.pair # NoPair /\ score = best.score /\ ci.y > best.pair[1].y
       IN IF MinNights <= nights /\ nights <= MaxNights /\ better
            THEN best_pair_loop(sorted, yds, i, j + 1, [pair |-> <<ci, co>>, score |-> score])
            ELSE best_pair_loop(sorted, yds, i, j + 1, best)

best_pair(sorted, yds) ==
  best_pair_loop(sorted, yds, 1, 2, [pair |-> NoPair, score |-> 0]).pair

fallback_step(dat, body, ctx) ==
  IF dat.raised \/ ~NeedsFallback(dat) THEN dat
  ELSE LET cds == combined_dates(body)
           yds == MapYearDates(year_dates(body))
       IN IF FallbackRaises(cds, ctx) THEN Raise(dat)
          ELSE LET sorted == SortDates(parsed_dates(cds, ctx))
                   bp == best_pair(sorted, yds)
               IN IF bp # NoPair
                    THEN [dat EXCEPT !.checkInDate = bp[1], !.checkOutDate = bp[2]]
                  ELSE IF Len(sorted) >= 2
                    THEN [dat EXCEPT !.checkInDate = sorted[1], !.checkOutDate = sorted[2]]
                  ELSE dat

\* --- nights (lines 697-719) ---
nights_step(dat, body) ==
  IF dat.raised THEN dat
  ELSE LET calc ==
             IF Has(dat.checkInDate) /\ Has(dat.checkOutDate)
                /\ ValidDate(dat.checkInDate) /\ ValidDate(dat.checkOutDate)
                /\ DaysBetween(dat.checkOutDate, dat.checkInDate) > 0
               THEN [dat EXCEPT !.nights = DaysBetween(dat.checkOutDate, dat.checkInDate)]
               ELSE dat
       IN IF calc.nights = Absent /\ body.nights # Absent
            THEN [calc EXCEPT !.nights = body.nights]
            ELSE calc

\* ------------------------------------------------------------------------
\* Money lines
\*
\* The amount-carrying part of a text is a sequence of lines, each a label
\* followed by one amount and a newline; amounts are integer cents written
\* in the Swedish convention ("4 494,80").
\*   totalt      "TOTALT (EUR) € 389,13"
\*   tjanar_eur  "Du tjänar: € 128,50"
\*   tjanar_sek  "Du tjänar: 1 350,96 kr"
\*   guest       "Gästens totala kostnad: € 462,84"
\*   clean       "Städavgift: € 100,00"
\*   utbet       "Utbetalning på 4 494,80 kr"
\*   pad         filler of n letters that holds no keyword and no amount
\* ------------------------------------------------------------------------
EurKinds == {"totalt", "tjanar_eur", "guest", "clean"}
SekKinds == {"tjanar_sek", "utbet"}
TjanarKinds == {"tjanar_eur", "tjanar_sek"}

Line(kind, amt) == [kind |-> kind, amt |-> amt]
Pad(n) == [kind |-> "pad", amt |-> n]

\* length of the label in front of the amount
LabelLen(kind) ==
  CASE kind = "totalt" -> 13
    [] kind = "tjanar_eur" -> 11
    [] kind = "tjanar_sek" -> 11
    [] kind = "guest" -> 24
    [] kind = "clean" -> 12
    [] kind = "utbet" -> 15
    [] OTHER -> 0

\* number of characters of an amount written as "d ddd,dd"
DigitsLen(c) ==
  IF c < 1000 THEN 4 ELSE IF c < 10000 THEN 5 ELSE IF c < 100000 THEN 6 ELSE 8

\* length of a line with its newline
LineLen(ln) ==
  IF ln.kind = "pad" THEN ln.amt + 1
  ELSE IF ln.kind \in EurKinds THEN LabelLen(ln.kind) + 2 + DigitsLen(ln.amt) + 1
  ELSE LabelLen(ln.kind) + DigitsLen(ln.amt) + 3 + 1

RECURSIVE TextLen(_)
TextLen(text) == IF text = <<>> THEN 0 ELSE LineLen(Head(text)) + TextLen(Tail(text))

\* offset of line i in the text
LineStart(text, i) == TextLen(SubSeq(text, 1, i - 1))

\* where a keyword of basic_extraction lies inside the lower-cased label
KeywordSpan(kind, kw) ==
  CASE kind = "totalt" /\ kw = "totalt (eur)" -> <<0, 12>>
    [] kind = "totalt" /\ kw = "totalt" -> <<0, 6>>
    [] kind = "totalt" /\ kw = "eur" -> <<8, 11>>
    [] kind = "guest" /\ kw = "gäst" -> <<0, 4>>
    [] kind \in TjanarKinds /\ kw = "tjänar" -> <<3, 9>>
    [] kind = "clean" /\ kw = "städ" -> <<0, 4>>
    [] kind = "utbet" /\ kw = "utbetalning" -> <<0, 11>>
    [] OTHER -> <<>>

ContextWindow == 50

\* --- MLDataExtractor.extract_candidate_entities: the amounts ---
\* the span of the amount of line i: the euro pattern starts at the symbol
\* and takes the newline after the digits; the kr pattern starts at the
\* blank in front of the digits and ends after "kr"
AmountCandidate(text, i) ==
  LET ln == text[i]
      s0 == LineStart(text, i)
  IN IF ln.kind \in EurKinds
       THEN [line |-> i, value |-> ln.amt, cur |-> "eur",
             start |-> s0 + LabelLen(ln.kind),
             end |-> s0 + LineLen(ln)]
       ELSE [line |-> i, value |-> ln.amt, cur |-> "sek",
             start |-> s0 + LabelLen(ln.kind) - 1,
             end |-> s0 + LineLen(ln) - 1]

RECURSIVE CandidatesOf(_, _, _)
CandidatesOf(text, i, kinds) ==
  IF i > Len(text) THEN <<>>
  ELSE (IF text[i].kind \in kinds THEN <<AmountCandidate(text, i)>> ELSE <<>>)
         \o CandidatesOf(text, i + 1, kinds)

\* the euro pattern runs first over the whole text, then the kr patterns
amount_candidates(text) ==
  CandidatesOf(text, 1, EurKinds) \o CandidatesOf(text, 1, SekKinds)

Max2(a, b) == IF a > b THEN a ELSE b
Min2(a, b) == IF a < b THEN a ELSE b

\* kw in amount['context'].lower()
InContext(text, cand, kw) ==
  \E i \in 1..Len(text) :
    LET sp == KeywordSpan(text[i].kind, kw)
    IN /\ sp # <<>>
       /\ LineStart(text, i) + sp[1] >= Max2(0, cand.start - ContextWindow)
       /\ LineStart(text, i) + sp[2] <= Min2(TextLen(text), cand.end + ContextWindow)

\* --- MLDataExtractor.basic_extraction (lines 327-389) ---
\* The text model has no "kr SEK x N nätter" line, so the per-night branch
\* of the payout rule (priorities 95 and 75) is never taken.
NoRule == [field |-> "none", priority |-> 0]

priority_rule(text, cand) ==
  LET has_eur_symbol == cand.cur = "eur"
      has_sek_symbol == cand.cur = "sek"
  IN IF InContext(text, cand, "totalt (eur)")
        \/ (InContext(text, cand, "totalt") /\ InContext(text, cand, "eur"))
       THEN [field |-> "hostEarningsEur", priority |-> 100]
     ELSE IF (InContext(text, cand, "gäst") \/ InContext(text, cand, "totalt"))
             /\ has_eur_symbol
       THEN [field |-> "guestTotalEur", priority |-> 90]
     ELSE IF InContext(text, cand, "tjänar") /\ has_eur_symbol
       THEN [field |-> "hostEarningsEur", priority |-> 80]
     ELSE IF InContext(text, cand, "tjänar") /\ has_sek_symbol
       THEN [field |-> "hostEarningsSek", priority |-> 85]
     ELSE IF InContext(text, cand, "utbetalning") /\ has_sek_symbol
       THEN [field |-> "hostEarningsSek", priority |-> 90]
     ELSE IF InContext(text, cand, "städ") /\ has_eur_symbol
       THEN [field |-> "cleaningFeeEur", priority |-> 60]
     ELSE NoRule

RECURSIVE priorities_of(_, _)
\* the priorities list, in candidate order; amounts <= 0 are skipped
priorities_of(text, cands) ==
  IF cands = <<>> THEN <<>>
  ELSE LET c == Head(cands)
           r == priority_rule(text, c)
       IN (IF c.value <= 0 \/ r = NoRule THEN <<>>
           ELSE <<[field |-> r.field, value |-> c.value, priority |-> r.priority]>>)
            \o priorities_of(text, Tail(cands))

\* priorities.sort(key=priority, reverse=True) is stable: the winner of a
\* field is its first entry of highest priority
FieldWinner(prios, field) ==
  LET idx == {i \in 1..Len(prios) : prios[i].field = field}
  IN IF idx = {} THEN Absent
     ELSE LET top == CHOOSE i \in idx :
                       \A j \in idx : \/ prios[j].priority < prios[i].priority
                                      \/ (prios[j].priority = prios[i].priority /\ i <= j)
          IN prios[top].value

MoneyFields == {"hostEarningsEur", "hostEarningsSek", "guestTotalEur", "cleaningFeeEur"}

\* the mapping returned: a field is Absent when the mapping has no such key
basic_extraction(text, email_type) ==
  LET prios == priorities_of(text, amount_candidates(text))
  IN [f \in MoneyFields |-> FieldWinner(prios, f)]

\* --- money fields of the heuristic engine (lines 721-945) ---
\* index of the first line of one of the kinds from line i on, 0 when none
RECURSIVE FirstOf(_, _, _)
FirstOf(text, i, kinds) ==
  IF i > Len(text) THEN 0
  ELSE IF text[i].kind \in kinds THEN i
  ELSE FirstOf(text, i + 1, kinds)

AmtAt(text, i) == IF i = 0 THEN Absent ELSE text[i].amt

\* guest_total_eur: "TOTALT (...) €" or "Gästens totala kostnad: €"
guest_total_match(text) == AmtAt(text, FirstOf(text, 1, {"totalt", "guest"}))

\* host_earnings_eur: the first "Du tjänar", then ([^€]*?€) the first euro
\* amount that follows it anywhere in the text
host_earnings_eur_match(text) ==
  LET t == FirstOf(text, 1, TjanarKinds)
  IN IF t = 0 THEN Absent ELSE AmtAt(text, FirstOf(text, t, EurKinds))

\* host_earnings_sek: a "Du tjänar" whose first number is followed by kr
host_earnings_sek_match(text) == AmtAt(text, FirstOf(text, 1, {"tjanar_sek"}))

\* du_tjanar_pattern of the fallback: "Du tjänar", no digit, then the euro sign
du_tjanar_match(text) == AmtAt(text, FirstOf(text, 1, {"tjanar_eur"}))

cleaning_fee_match(text) == AmtAt(text, FirstOf(text, 1, {"clean"}))

\* euro_amounts = re.findall(...): every euro amount, in text order
RECURSIVE euro_amounts(_)
euro_amounts(text) ==
  IF text = <<>> THEN <<>>
  ELSE (IF Head(text).kind \in EurKinds THEN <<Head(text).amt>> ELSE <<>>)
         \o euro_amounts(Tail(text))

\* not data.get(field): None and 0.0 are both falsy
Falsy(v) == v = Absent \/ v = 0

SetMax(S) == CHOOSE a \in S : \A b \in S : b <= a
SetMin(S) == CHOOSE a \in S : \A b \in S : a <= b

\* the generic table fallback (lines 878-919), amounts in cents
table_fallback(ea) ==
  IF Len(ea) >= 8
    THEN LET band == {ea[i] : i \in {k \in 1..Len(ea) : ea[k] >= 100 /\ ea[k] <= 100000}}
         IN IF band = {} THEN Absent
            ELSE IF SetMin(band) <= 10000 THEN SetMin(band) ELSE SetMax(band)
  ELSE IF Len(ea) >= 4
    THEN LET n == Len(ea)
             ok == {i \in {n - 2, n - 1} : ea[i] >= 2000 /\ ea[i] <= 50000}
         IN IF ok = {} THEN Absent ELSE ea[SetMax(ok)]
  ELSE Absent

money_step(dat, text) ==
  IF dat.raised THEN dat
  ELSE LET eur == host_earnings_eur_match(text)
           d1 == [dat EXCEPT !.guestTotalEur = guest_total_match(text),
                             !.hostEarningsEur = eur,
                             !.currency = IF eur # Absent THEN "EUR" ELSE @]
           sek == IF Falsy(d1.hostEarningsEur) THEN host_earnings_sek_match(text) ELSE Absent
           d2 == [d1 EXCEPT !.hostEarningsSek = sek,
                            !.currency = IF sek # Absent THEN "SEK" ELSE @]
           d3 == IF Falsy(d2.hostEarningsEur) /\ Falsy(d2.hostEarningsSek)
                      /\ du_tjanar_match(text) # Absent
                   THEN [d2 EXCEPT !.hostEarningsEur = du_tjanar_match(text),
                                   !.currency = "EUR"]
                   ELSE d2
           d4 == IF Falsy(d3.hostEarningsEur) /\ Falsy(d3.hostEarningsSek)
                      /\ table_fallback(euro_amounts(text)) # Absent
                      /\ table_fallback(euro_amounts(text)) # 0
                   THEN [d3 EXCEPT !.hostEarningsEur = table_fallback(euro_amounts(text))]
                   ELSE d3
       IN [d4 EXCEPT !.cleaningFeeEur = cleaning_fee_match(text)]

\* --- guest name from the subject (lines 379-402) ---
\* A name is a sequence of characters.  The subject
\* "Bokning bekräftad - <name> anländer <d> <month>" carries it between
\* " - " and " anländer"; every further pattern of the list captures a part
\* of what the first pattern captures.
Blank == " "
StripChars == {" ", ".", "!", ","}

RECURSIVE LStrip(_, _)
LStrip(s, chars) ==
  IF s # <<>> /\ Head(s) \in chars THEN LStrip(Tail(s), chars) ELSE s

RECURSIVE RStrip(_, _)
RStrip(s, chars) ==
  IF s # <<>> /\ s[Len(s)] \in chars THEN RStrip(SubSeq(s, 1, Len(s) - 1), chars) ELSE s

\* str.strip(chars)
Strip(s, chars) == RStrip(LStrip(s, chars), chars)

RECURSIVE CollapseBlanks(_)
\* re.sub(r'\s+', ' ', s)
CollapseBlanks(s) ==
  IF Len(s) < 2 THEN s
  ELSE IF s[1] = Blank /\ s[2] = Blank THEN CollapseBlanks(Tail(s))
  ELSE <<Head(s)>> \o CollapseBlanks(Tail(s))

MinNameLen == 3

clean_subject_name(name) == Strip(CollapseBlanks(Strip(name, {Blank})), StripChars)

\* a plausible slip: no minimum length
guest_name_step_nomin(dat, subject) ==
  IF dat.raised \/ subject.form # "confirm" THEN dat
  ELSE [dat EXCEPT !.guestName = clean_subject_name(subject.name)]

guest_name_step(dat, subject) ==
  IF dat.raised \/ subject.form # "confirm" THEN dat
  ELSE IF Len(clean_subject_name(subject.name)) >= MinNameLen
    THEN [dat EXCEPT !.guestName = clean_subject_name(subject.name)]
    ELSE dat

\* --- payout (lines 1007-1083) ---
\* prange is "6 september - 8 september": the range patterns want the dash
\* right after the first month, so a year written there leaves no match
payout_step(dat, body, ctx) ==
  LET sek == AmtAt(body.money, FirstOf(body.money, 1, SekKinds))
      d1 == IF sek # Absent THEN [dat EXCEPT !.amount = sek, !.currency = "SEK"] ELSE dat
  IN IF body.prange = <<>> \/ body.prange[1].yr # 0 THEN d1
     ELSE LET t1 == body.prange[1]
              t2 == body.prange[2]
              year == GRY(ctx, t1.mon, t1.d)
          IN IF year = Raised THEN Raise(d1)
             ELSE [d1 EXCEPT !.checkInDate = DateStr(year, t1.mon, t1.d),
                             !.checkOutDate = DateStr(year, t2.mon, t2.d)]

\* --- cancellation (lines 1085-1092) ---
CancellationYear == 2025

cancellation_step(dat, subject) ==
  IF subject.form # "range" THEN dat
  ELSE [dat EXCEPT
          !.checkInDate = DateStr(CancellationYear, subject.tok.mon, subject.tok.d),
          !.checkOutDate = DateStr(CancellationYear, subject.tok.mon, subject.d2)]

\* --- change_request (lines 1093-1124) ---
\* original is "URSPRUNGLIGA DATUM 28 oktober 2025 - 30 oktober 2025" and
\* requested "EFTERFRÅGADE DATUM ... - ...": both patterns want a year after
\* each month; the subject "Anna vill ändra ..." has the form "change"
\* parse_swedish_date (lines 120-131): f"{year}-{month}-{day.zfill(2)}"
parse_swedish_date(tok) == DateStr(tok.yr, tok.mon, tok.d)

\* format_date_for_ml (lines 133-142): "YYYY-MM-DD" becomes "MM/DD/YYYY"
format_date_for_ml(date_str) ==
  [form |-> "MM/DD/YYYY", y |-> date_str.y, m |-> date_str.m, d |-> date_str.d]

DatedRange(frag) == frag # <<>> /\ frag[1].yr # 0 /\ frag[2].yr # 0

change_request_step(dat, subject, body) ==
  LET d1 == IF subject.form = "change"
              THEN [dat EXCEPT !.guestName = Strip(subject.name, {Blank})] ELSE dat
      d2 == IF DatedRange(body.original)
              THEN [d1 EXCEPT
                      !.originalCheckInDate = format_date_for_ml(parse_swedish_date(body.original[1])),
                      !.originalCheckOutDate = format_date_for_ml(parse_swedish_date(body.original[2]))]
              ELSE d1
  IN IF DatedRange(body.requested)
       THEN [d2 EXCEPT
               !.checkInDate = format_date_for_ml(parse_swedish_date(body.requested[1])),
               !.checkOutDate = format_date_for_ml(parse_swedish_date(body.requested[2]))]
       ELSE d2

\* --- AirbnbEmailClassifier.extract_booking_data ---
confirmation_steps(dat, subject, body, ctx) ==
  money_step(
    nights_step(
      fallback_step(
        date_pair_step(
          checkout_step(
            checkin_step(
              combined_dates_step(
                subject_checkin(
                  guest_name_step(dat, subject),
                  subject, ctx),
                body, ctx),
              body, ctx),
            body, ctx),
          body, ctx),
        body, ctx),
      body),
    body.money)

extract_booking_data(email_type, subject, body, ed, sy, now) ==
  LET dat == EmptyData(email_type)
      ctx == Ctx(ed, sy, now)
  IN CASE email_type = "booking_confirmation" -> confirmation_steps(dat, subject, body, ctx)
       [] email_type = "payout" -> payout_step(dat, body, ctx)
       [] email_type = "cancellation" -> cancellation_step(dat, subject)
       [] email_type = "change_request" -> change_request_step(dat, subject, body)
       [] OTHER -> dat

\* ------------------------------------------------------------------------
\* State
\* ------------------------------------------------------------------------
VARIABLES
  pc,             \* position of the request being served
  email_date,     \* RawMessage.referenceDate ("emailDate"), None when unknown
  scanning_year,  \* scanning-period hint, 0 when absent
  today,          \* what datetime.now().date() returns
  month,          \* get_reference_year: candidate month
  day,            \* get_reference_year: candidate day
  year_out,       \* get_reference_year: returned year, Raised, or 0 before the call
  email_type,     \* EmailCategory of the message
  subject,        \* RawMessage.subject
  body,           \* RawMessage.body
  data,           \* the ExtractedRecord returned by extract_booking_data
  training_examples,  \* MLDataExtractor.training_examples (the labelled log)
  amount_classifier,  \* MLDataExtractor.amount_classifier
  model_file,     \* what the model path holds on disk
  tpc,            \* position of the thread inside train_classifiers
  last_op,        \* the maintenance operation that returned last
  rpc,            \* position of the thread inside extract_data
  seen,           \* what extract_data found in amount_classifier
  extracted,      \* what extract_data returned
  predicted,      \* what the classifier answered for each amount candidate
  call,           \* the arguments of the function or request being served
  ret,            \* what it returned, or the response written to stdout
  classifier_file \* whether airbnb_email_classifier.pkl exists

engineVars == <<pc, email_date, scanning_year, today, month, day, year_out, data>>

mlVars == <<training_examples, amount_classifier, model_file, tpc, last_op,
            rpc, seen, extracted, predicted>>

vars == <<pc, email_date, scanning_year, today, month, day, year_out,
          email_type, subject, body, data,
          training_examples, amount_classifier, model_file, tpc, last_op,
          rpc, seen, extracted, predicted, call, ret, classifier_file>>

callVars == <<call, ret, classifier_file>>

\* amount_classifier = None
NoClassifier == [installed |-> FALSE, fitted |-> FALSE, classes |-> {}, samples |-> 0]

NoFile == [exists |-> FALSE, amount_classifier |-> NoClassifier, training_examples |-> <<>>]

NoFields == [f \in MoneyFields |-> Absent]

NoResult == [raised |-> FALSE, fields |-> NoFields]

\* a fresh MLDataExtractor that nothing calls
NoExtractor ==
  /\ training_examples = <<>>
  /\ amount_classifier = NoClassifier
  /\ model_file = NoFile
  /\ tpc = "idle"
  /\ last_op = "none"
  /\ rpc = "idle"
  /\ seen = "nothing"
  /\ extracted = NoResult
  /\ predicted = <<>>

EmptyBody ==
  [comb |-> <<>>, inn |-> <<>>, out |-> <<>>, pair |-> <<>>, bare |-> <<>>,
   prange |-> <<>>, original |-> <<>>, requested |-> <<>>,
   nights |-> Absent, money |-> <<>>]

PlainSubject == [form |-> "plain", name |-> <<>>, tok |-> NoTok, d2 |-> 0]

NoMessage ==
  /\ email_type = "none"
  /\ subject = PlainSubject
  /\ body = EmptyBody
  /\ data = EmptyData("none")

NoYearQuery == month = 0 /\ day = 0 /\ year_out = 0

\* no function call or request is being served; the trained classifier is
\* in place
NoCall == call = <<>> /\ ret = <<>> /\ classifier_file = TRUE

\* ------------------------------------------------------------------------
\* Year resolution on its own: get_reference_year over anchors and candidates
\* ------------------------------------------------------------------------
AnchorYears == FirstAnchorYear..LastAnchorYear

AnchorDays == {1, 10, 20, 28, 29, 30, 31}

AnchorDates ==
  {dt \in [y : AnchorYears, m : 1..12, d : AnchorDays] : ValidDate(dt)}

Today == [y |-> 2026, m |-> 11, d |-> 1]

CandidateDays == 0..31

InitYear ==
  /\ pc = "call"
  /\ email_date \in AnchorDates \cup {None}
  /\ scanning_year \in (IF email_date = None THEN {0, LastAnchorYear} ELSE {0})
  /\ today = Today
  /\ month \in 1..12
  /\ day \in CandidateDays
  /\ year_out = 0
  /\ NoMessage
  /\ NoExtractor
  /\ NoCall

GetReferenceYear ==
  /\ pc = "call"
  /\ year_out' = get_reference_year(email_date, month, day, scanning_year, today)
  /\ pc' = "done"
  /\ UNCHANGED <<email_date, scanning_year, today, month, day,
                 email_type, subject, body, data>>
  /\ UNCHANGED mlVars
  /\ UNCHANGED callVars

NextYear == GetReferenceYear

SpecYear == InitYear /\ [][NextYear]_vars

CrossYearCase ==
  /\ email_date # None
  /\ email_date.m \in {11, 12}
  /\ month \in {1, 2}
  /\ ValidYMD(email_date.y, month, day)
  /\ DaysBetween([y |-> email_date.y, m |-> month, d |-> day], email_date)
       < -CrossYearThreshold

\* C9: for every anchor date in November or December and every candidate
\* (month, day) in January or February whose date in the anchor's year lies
\* more than 300 days before the anchor, get_reference_year returns the
\* anchor's year + 1.
C9_CrossYearRule ==
  (pc = "done" /\ CrossYearCase) => year_out = email_date.y + 1

\* anchor 2025-12-20, candidate 01/05, resolved 2026
C9_Witness ==
  /\ pc = "done"
  /\ CrossYearCase
  /\ email_date = [y |-> 2025, m |-> 12, d |-> 20]
  /\ month = 1 /\ day = 5
  /\ year_out = 2026

\* ------------------------------------------------------------------------
\* The heuristic engine: one extract_booking_data call per message
\* ------------------------------------------------------------------------
ExtractBookingData ==
  /\ pc = "call"
  /\ data' = extract_booking_data(email_type, subject, body,
                                  email_date, scanning_year, today)
  /\ pc' = "done"
  /\ UNCHANGED <<email_date, scanning_year, today, month, day, year_out,
                 email_type, subject, body>>
  /\ UNCHANGED mlVars
  /\ UNCHANGED callVars

NextEngine == ExtractBookingData

Emitted == pc = "done" /\ ~data.raised

\* --- messages of the date specification ---
MaxBare == 3

Tok(d, m, full, yr) == [d |-> d, mon |-> m, full |-> full, yr |-> yr]

\* "13 juli", "13 juli 2024", "13 jul 2024", dates around New Year, in
\* February, and a day 0
TokList ==
  <<Tok(13, 7, TRUE, 0), Tok(15, 7, TRUE, 0), Tok(27, 7, TRUE, 0),
    Tok(13, 7, TRUE, 2024), Tok(15, 7, TRUE, 2024), Tok(27, 7, TRUE, 2024),
    Tok(13, 7, FALSE, 2024), Tok(15, 7, FALSE, 2024), Tok(27, 7, FALSE, 2024),
    Tok(30, 12, TRUE, 0), Tok(2, 1, TRUE, 0),
    Tok(29, 2, TRUE, 0), Tok(31, 2, TRUE, 0), Tok(0, 5, TRUE, 0)>>

Tokens == Range(TokList)

OptTok == {<<>>} \cup {<<tk>> : tk \in Tokens}

OptTwo == {<<>>} \cup {<<a, b>> : a \in Tokens, b \in Tokens}

\* bare dates: up to MaxBare different tokens (their order in the text does
\* not matter to the engine, which sorts the dates it parsed)
BareSeqs ==
  {<<>>} \cup
  UNION {{[i \in 1..k |-> TokList[f[i]]] :
            f \in {g \in [1..k -> 1..Len(TokList)] :
                     \A i \in 1..(k - 1) : g[i] < g[i + 1]}} : k \in 1..MaxBare}

FewBare == {<<>>, <<Tok(27, 7, TRUE, 0)>>, <<Tok(2, 1, TRUE, 0)>>}

DateBodies ==
  {[EmptyBody EXCEPT !.comb = c] : c \in OptTwo}
    \cup {[EmptyBody EXCEPT !.pair = p] : p \in OptTwo}
    \cup {[EmptyBody EXCEPT !.inn = i, !.out = o, !.bare = b] :
            i \in OptTok, o \in OptTok, b \in FewBare}
    \cup {[EmptyBody EXCEPT !.bare = b] : b \in BareSeqs}

NightsMentions == {Absent, 0, 2}

FixedName == <<"A", "n", "n", "a">>

ConfirmSubject(name, tok) == [form |-> "confirm", name |-> name, tok |-> tok, d2 |-> 0]

RangeSubject(tok, d2) == [form |-> "range", name |-> <<>>, tok |-> tok, d2 |-> d2]

DateSubjects ==
  {PlainSubject} \cup
  {ConfirmSubject(FixedName, tk) : tk \in {Tok(12, 5, TRUE, 0), Tok(31, 2, TRUE, 0)}}

DateAnchors ==
  {[y |-> 2025, m |-> 3, d |-> 1], [y |-> 2025, m |-> 11, d |-> 20],
   [y |-> 2024, m |-> 1, d |-> 10], None}

ConfirmationMessage ==
  /\ email_type = "booking_confirmation"
  /\ subject \in DateSubjects
  /\ \E b \in DateBodies, n \in NightsMentions : body = [b EXCEPT !.nights = n]

PayoutMessage ==
  /\ email_type = "payout"
  /\ subject = PlainSubject
  /\ \E p \in OptTwo : body = [EmptyBody EXCEPT !.prange = p]

CancellationMessage ==
  /\ email_type = "cancellation"
  /\ subject \in {PlainSubject} \cup
                 {RangeSubject(Tok(a, m, FALSE, 0), b) :
                    a \in {13, 15, 31}, b \in {13, 15}, m \in {2, 7}}
  /\ body = EmptyBody

ChangeSubject(name) == [form |-> "change", name |-> name, tok |-> NoTok, d2 |-> 0]

ChangeRanges ==
  {<<>>, <<Tok(28, 10, TRUE, 2025), Tok(30, 10, TRUE, 2025)>>,
   <<Tok(13, 7, FALSE, 2024), Tok(15, 7, TRUE, 0)>>}

ChangeRequestMessage ==
  /\ email_type = "change_request"
  /\ subject \in {PlainSubject, ChangeSubject(FixedName)}
  /\ \E o \in ChangeRanges, r \in OptTwo :
       body = [EmptyBody EXCEPT !.original = o, !.requested = r]

InitDates ==
  /\ pc = "call"
  /\ email_date \in DateAnchors
  /\ scanning_year = 0
  /\ today = Today
  /\ NoYearQuery
  /\ data = EmptyData("none")
  /\ (ConfirmationMessage \/ PayoutMessage \/ CancellationMessage \/ ChangeRequestMessage)
  /\ NoExtractor
  /\ NoCall

SpecDates == InitDates /\ [][NextEngine]_vars

\* ------------------------------------------------------------------------
\* Claims about the dates and the nights of a record
\* ------------------------------------------------------------------------
\* "YYYY-MM-DD" strings compare as their (year, month, day) triples
DateLeq(a, b) ==
  \/ a.y < b.y
  \/ a.y = b.y /\ a.m < b.m
  \/ a.y = b.y /\ a.m = b.m /\ a.d <= b.d

\* C3: in every emitted record nights is absent or strictly positive,
\* whether computed from the two dates or read from an "N nätter" mention.
C3_NightsPositive ==
  Emitted => (data.nights = Absent \/ data.nights > 0)

\* C4: in every emitted record that has both dates, of any category and on
\* any resolution path, checkOutDate is not earlier than checkInDate.
C4_DateOrder ==
  (Emitted /\ Has(data.checkInDate) /\ Has(data.checkOutDate))
    => DateLeq(data.checkInDate, data.checkOutDate)

\* C5: extract_booking_data returns a record for every text; no exception
\* reaches the caller, also when a day/month token is no calendar date.
C5_NoException ==
  pc = "done" => ~data.raised

\* the record as it stands when the pair-selection fallback is reached
BeforeFallback ==
  LET ctx == Ctx(email_date, scanning_year, today)
  IN date_pair_step(
       checkout_step(
         checkin_step(
           combined_dates_step(
             subject_checkin(
               guest_name_step(EmptyData(email_type), subject),
               subject, ctx),
             body, ctx),
           body, ctx),
         body, ctx),
       body, ctx)

FallbackRan ==
  /\ Emitted
  /\ email_type = "booking_confirmation"
  /\ ~BeforeFallback.raised
  /\ NeedsFallback(BeforeFallback)

\* the resolved dates the fallback works on
ResolvedDates ==
  parsed_dates(combined_dates(body), Ctx(email_date, scanning_year, today))

\* the dates the body writes with their year
ExplicitYearDates ==
  {DateStr(tk.yr, tk.mon, tk.d) : tk \in {u \in Range(BodyTokens(body)) : u.yr # 0}}

RubricScore(ci, co) ==
  LET nights == DaysBetween(co, ci)
  IN (IF ci \in ExplicitYearDates /\ co \in ExplicitYearDates
        THEN ExplicitYearBonus ELSE 0)
     + (IF ci.d # co.d THEN DifferentDayBonus ELSE 0)
     + (IF ci.y = co.y THEN SameYearBonus
        ELSE IF AbsVal(ci.y - co.y) = 1 /\ nights <= 14 THEN CrossYearBonus ELSE 0)
     + (IF 2 <= nights /\ nights <= 7 THEN ShortStayBonus
        ELSE IF 8 <= nights /\ nights <= 14 THEN MediumStayBonus ELSE 0)

CandidatePairs ==
  {p \in ResolvedDates \X ResolvedDates :
     MinNights <= DaysBetween(p[2], p[1]) /\ DaysBetween(p[2], p[1]) <= MaxNights}

\* C8: when the pair-selection fallback runs, the pair it emits has the
\* highest score of the rubric among the pairs of resolved dates, the +20
\* going to pairs whose two dates are written with their year.
C8_BestPairSelected ==
  (FallbackRan /\ CandidatePairs # {})
    => /\ <<data.checkInDate, data.checkOutDate>> \in CandidatePairs
       /\ \A p \in CandidatePairs :
            RubricScore(p[1], p[2]) <= RubricScore(data.checkInDate, data.checkOutDate)

\* ------------------------------------------------------------------------
\* Confirmation subjects: "Bokning bekräftad - <Name> anländer <D> <month>"
\* ------------------------------------------------------------------------
MaxNameLen == 4

NameChars == {"A", "n", " ", "."}

AnnaSvensson == <<"A", "n", "n", "a", " ", "S", "v", "e", "n", "s", "s", "o", "n">>

Names ==
  {<<>>, AnnaSvensson} \cup UNION {[1..k -> NameChars] : k \in 1..MaxNameLen}

SubjectTokens ==
  {Tok(d, m, f, 0) : d \in {0, 5, 12, 29, 31}, m \in {1, 2, 5}, f \in BOOLEAN}
    \ {Tok(d, 5, FALSE, 0) : d \in 0..31}

SubjectAnchors ==
  DateAnchors \cup {[y |-> 2025, m |-> 12, d |-> 20], [y |-> 2024, m |-> 12, d |-> 31]}

InitSubject ==
  /\ pc = "call"
  /\ email_date \in SubjectAnchors
  /\ scanning_year = 0
  /\ today = Today
  /\ NoYearQuery
  /\ data = EmptyData("none")
  /\ email_type = "booking_confirmation"
  /\ subject \in {ConfirmSubject(n, tk) : n \in Names, tk \in SubjectTokens}
  /\ body = EmptyBody
  /\ NoExtractor
  /\ NoCall

SpecSubject == InitSubject /\ [][NextEngine]_vars

ConfirmationSubjectCase ==
  /\ Emitted
  /\ email_type = "booking_confirmation"
  /\ subject.form = "confirm"
  /\ subject.tok # NoTok
  /\ BodyTokens(body) = <<>>

ResolvedCheckIn ==
  DateStr(get_reference_year(email_date, subject.tok.mon, subject.tok.d,
                             scanning_year, today),
          subject.tok.mon, subject.tok.d)

MaxLines == 4

MoneyLines ==
  {Line("totalt", 38913), Line("tjanar_eur", 12850), Line("tjanar_eur", 0),
   Line("tjanar_sek", 135096), Line("guest", 46284), Line("clean", 10000),
   Line("utbet", 449480), Pad(5), Pad(60)}

MoneyTexts == UNION {[1..k -> MoneyLines] : k \in 0..MaxLines}

InitMoney ==
  /\ pc = "call"
  /\ email_date = [y |-> 2025, m |-> 3, d |-> 1]
  /\ scanning_year = 0
  /\ today = Today
  /\ NoYearQuery
  /\ data = EmptyData("none")
  /\ email_type \in {"booking_confirmation", "cancellation", "payout"}
  /\ subject = PlainSubject
  /\ \E txt \in MoneyTexts : body = [EmptyBody EXCEPT !.money = txt]
  /\ NoExtractor
  /\ NoCall

SpecMoney == InitMoney /\ [][NextEngine]_vars

LinesOf(kind) == {i \in 1..Len(body.money) : body.money[i].kind = kind}

\* C1: for a booking_confirmation text with a "TOTALT (EUR) € A" amount and
\* a "Du tjänar: € B" amount, A different from B, in either order, the
\* extracted hostEarningsEur is A.
C1_TotaltWins ==
  (Emitted /\ email_type = "booking_confirmation")
    => \A i \in LinesOf("totalt") : \A j \in LinesOf("tjanar_eur") :
         body.money[i].amt # body.money[j].amt
           => data.hostEarningsEur = body.money[i].amt

\* C2: a cancellation whose text has no partial-payout amount yields a
\* record with hostEarningsEur = 0 and hostEarningsSek = 0, both present.
C2_CancellationZero ==
  (Emitted /\ email_type = "cancellation"
     /\ \A i \in 1..Len(body.money) : body.money[i].kind = "pad")
    => data.hostEarningsEur = 0 /\ data.hostEarningsSek = 0

\* ------------------------------------------------------------------------
\* MLDataExtractor: the labelled log, training, the model file, extract_data
\*
\* A classifier object is [installed, fitted, classes, samples]: classes are
\* the labels it was fitted on, samples the number of labelled amounts.
\* One thread maintains the extractor (add_training_example, load_model,
\* train_classifiers); another one serves extract_data.  The class takes no
\* lock, so the statements of the two threads interleave.
\* ------------------------------------------------------------------------
MaxExamples == 2

LabelTolerance == 100

ConfidenceThreshold == 5

Labels(eur, sek) ==
  [f \in MoneyFields |->
     IF f = "hostEarningsEur" THEN eur
     ELSE IF f = "hostEarningsSek" THEN sek ELSE Absent]

Example(text, type, labels) == [email_text |-> text, email_type |-> type, labels |-> labels]

\* the labelled messages the training scripts feed in
HenriExample ==
  Example(<<Line("totalt", 38913), Line("tjanar_eur", 12850)>>,
          "booking_confirmation", Labels(38913, Absent))

PayoutExample ==
  Example(<<Line("utbet", 449480)>>, "payout", Labels(Absent, 449480))

CancellationExample == Example(<<>>, "cancellation", Labels(0, 0))

\* a confirmation whose text holds a second amount 0.37 above the labelled one
NearbyExample ==
  Example(<<Line("totalt", 38913), Line("guest", 38950)>>,
          "booking_confirmation", Labels(38913, Absent))

Examples == {HenriExample, PayoutExample, CancellationExample, NearbyExample}

\* the label of one amount (lines 257-266): the first field whose labelled
\* value lies less than 1.00 away, else "other"
amount_label(value, labels) ==
  LET near(f) == labels[f] # Absent /\ AbsVal(value - labels[f]) < LabelTolerance
  IN IF near("hostEarningsEur") THEN "hostEarningsEur"
     ELSE IF near("hostEarningsSek") THEN "hostEarningsSek"
     ELSE IF near("guestTotalEur") THEN "guestTotalEur"
     ELSE IF near("cleaningFeeEur") THEN "cleaningFeeEur"
     ELSE "other"

RECURSIVE labels_of(_, _)
labels_of(cands, labels) ==
  IF cands = <<>> THEN <<>>
  ELSE <<amount_label(Head(cands).value, labels)>> \o labels_of(Tail(cands), labels)

RECURSIVE amount_labels(_)
\* amount_labels of train_classifiers: one label per amount of the log
amount_labels(examples) ==
  IF examples = <<>> THEN <<>>
  ELSE labels_of(amount_candidates(Head(examples).email_text), Head(examples).labels)
         \o amount_labels(Tail(examples))

\* RandomForestClassifier(...) before fit
Unfitted == [installed |-> TRUE, fitted |-> FALSE, classes |-> {}, samples |-> 0]

\* the classifier after fit(amount_features, amount_labels)
Fitted(labels) ==
  [installed |-> TRUE, fitted |-> TRUE, classes |-> Range(labels), samples |-> Len(labels)]

\* the file a training script saved earlier
SavedFile ==
  [exists |-> TRUE,
   amount_classifier |-> Fitted(amount_labels(<<HenriExample, PayoutExample>>)),
   training_examples |-> <<HenriExample, PayoutExample>>]

\* a file that holds a classifier and no 'training_examples' key: line 411
\* reads its log as []
LegacyFile ==
  [exists |-> TRUE,
   amount_classifier |-> Fitted(amount_labels(<<HenriExample, PayoutExample>>)),
   training_examples |-> <<>>]

\* --- maintenance thread ---
AddTrainingExample ==
  /\ tpc = "idle"
  /\ Len(training_examples) < MaxExamples
  /\ \E e \in Examples : training_examples' = Append(training_examples, e)
  /\ last_op' = "add_training_example"
  /\ UNCHANGED <<amount_classifier, model_file, tpc, rpc, seen, extracted, predicted>>
  /\ UNCHANGED <<engineVars, email_type, subject, body>>
  /\ UNCHANGED callVars

\* load_model (lines 403-414): a missing file leaves the extractor as it is
LoadModel ==
  /\ tpc = "idle"
  /\ IF model_file.exists
       THEN /\ amount_classifier' = model_file.amount_classifier
            /\ training_examples' = model_file.training_examples
            /\ last_op' = "load_model"
       ELSE /\ UNCHANGED <<amount_classifier, training_examples>>
            /\ last_op' = "load_model_missing"
  /\ UNCHANGED <<model_file, tpc, rpc, seen, extracted, predicted>>
  /\ UNCHANGED <<engineVars, email_type, subject, body>>
  /\ UNCHANGED callVars

\* train_classifiers up to line 268: the size test and the labelling
TrainClassifiers ==
  /\ tpc = "idle"
  /\ IF Len(training_examples) < 2
       THEN tpc' = "idle" /\ last_op' = "train_too_few"
     ELSE IF Len(amount_labels(training_examples)) > 1
       THEN tpc' = "install" /\ last_op' = last_op
     ELSE tpc' = "idle" /\ last_op' = "train_no_amounts"
  /\ UNCHANGED <<training_examples, amount_classifier, model_file, rpc, seen, extracted, predicted>>
  /\ UNCHANGED <<engineVars, email_type, subject, body>>
  /\ UNCHANGED callVars

\* line 269: the new, unfitted classifier is stored in the attribute
TrainInstall ==
  /\ tpc = "install"
  /\ amount_classifier' = Unfitted
  /\ tpc' = "fit"
  /\ UNCHANGED <<training_examples, model_file, last_op, rpc, seen, extracted, predicted>>
  /\ UNCHANGED <<engineVars, email_type, subject, body>>
  /\ UNCHANGED callVars

\* line 270: fit works on the object the attribute already holds
TrainFit ==
  /\ tpc = "fit"
  /\ amount_classifier' = Fitted(amount_labels(training_examples))
  /\ tpc' = "idle"
  /\ last_op' = "train_classifiers"
  /\ UNCHANGED <<training_examples, model_file, rpc, seen, extracted, predicted>>
  /\ UNCHANGED <<engineVars, email_type, subject, body>>
  /\ UNCHANGED callVars

\* --- extract_data ---
\* a plausible slip: the test of line 296 inverted
no_amount_classifier_inverted(clf) == clf # NoClassifier

\* line 296: not self.amount_classifier, for None
no_amount_classifier(clf) == clf = NoClassifier

\* predict / predict_proba of a fitted forest: some class it was fitted on,
\* with the largest class probability, in tenths
Confidences == {4, 5, 8}

Predictions(clf) ==
  {[label |-> l, confidence |-> c] :
     l \in clf.classes, c \in {k \in Confidences : k * Cardinality(clf.classes) >= 10}}

\* a plausible slip: the threshold of line 313 taken as "at least 0.5"
learned_results_atleast(cands, preds) ==
  [f \in MoneyFields |->
     LET hits == {i \in 1..Len(cands) :
                    /\ preds[i].label = f
                    /\ preds[i].confidence >= ConfidenceThreshold
                    /\ cands[i].value > 0}
     IN IF hits = {} THEN Absent ELSE cands[SetMax(hits)].value]

\* lines 305-317: results[predicted_field] = amount_value, later amounts
\* overwriting earlier ones
learned_results(cands, preds) ==
  [f \in MoneyFields |->
     LET hits == {i \in 1..Len(cands) :
                    /\ preds[i].label = f
                    /\ preds[i].confidence > ConfidenceThreshold
                    /\ cands[i].value > 0}
     IN IF hits = {} THEN Absent ELSE cands[SetMax(hits)].value]

ReaderTexts ==
  {<<>>,
   <<Line("totalt", 38913), Line("tjanar_eur", 12850)>>,
   <<Line("tjanar_eur", 12850), Line("totalt", 38913)>>,
   <<Line("utbet", 449480)>>,
   <<Line("tjanar_eur", 0)>>,
   <<Line("guest", 46284), Line("clean", 10000)>>,
   <<Line("tjanar_sek", 135096), Pad(60), Line("totalt", 38913)>>,
   <<Line("totalt", 0), Line("tjanar_sek", 135096)>>}

ReaderTypes == {"booking_confirmation", "payout"}

Fallback == [raised |-> FALSE, fields |-> basic_extraction(body'.money, email_type')]

\* extract_data is called and evaluates line 296.  The truth value of a
\* forest that is not fitted yet is whatever its __len__ does with the
\* estimators it has so far: it raises, is false or is true.
ExtractDataCheck ==
  /\ rpc = "idle"
  /\ \E txt \in ReaderTexts, et \in ReaderTypes :
       /\ body' = [EmptyBody EXCEPT !.money = txt]
       /\ email_type' = et
  /\ IF amount_classifier.installed /\ ~amount_classifier.fitted
       THEN /\ seen' = "unfitted"
            /\ \E outcome \in {"raises", "false", "true"} :
                 CASE outcome = "raises" ->
                        rpc' = "done" /\ extracted' = [raised |-> TRUE, fields |-> NoFields]
                   [] outcome = "false" ->
                        rpc' = "done" /\ extracted' = Fallback
                   [] OTHER ->
                        rpc' = "classify" /\ extracted' = NoResult
     ELSE IF no_amount_classifier(amount_classifier)
       THEN /\ seen' = (IF amount_classifier = NoClassifier THEN "none" ELSE "fitted")
            /\ rpc' = "done"
            /\ extracted' = Fallback
     ELSE /\ seen' = (IF amount_classifier = NoClassifier THEN "none" ELSE "fitted")
          /\ rpc' = "classify"
          /\ extracted' = NoResult
  /\ UNCHANGED <<training_examples, amount_classifier, model_file, tpc, last_op, predicted>>
  /\ UNCHANGED <<engineVars, subject>>
  /\ UNCHANGED callVars

\* lines 303-317: the attribute is read again for predict and predict_proba
ExtractDataClassify ==
  /\ rpc = "classify"
  /\ rpc' = "done"
  /\ IF amount_classifier.fitted
       THEN /\ seen' = seen
            /\ \E preds \in [1..Len(amount_candidates(body.money))
                               -> Predictions(amount_classifier)] :
                 /\ predicted' = preds
                 /\ extracted' = [raised |-> FALSE,
                                  fields |-> learned_results(amount_candidates(body.money), preds)]
       ELSE /\ seen' = (IF amount_classifier.installed THEN "unfitted" ELSE seen)
            /\ extracted' = [raised |-> TRUE, fields |-> NoFields]
            /\ predicted' = <<>>
  /\ UNCHANGED <<training_examples, amount_classifier, model_file, tpc, last_op>>
  /\ UNCHANGED <<engineVars, email_type, subject, body>>
  /\ UNCHANGED callVars

\* the caller takes the result; the thread is free for the next call
ExtractDataReturn ==
  /\ rpc = "done"
  /\ rpc' = "idle"
  /\ seen' = "nothing"
  /\ extracted' = NoResult
  /\ predicted' = <<>>
  /\ body' = EmptyBody
  /\ email_type' = "none"
  /\ UNCHANGED <<training_examples, amount_classifier, model_file, tpc, last_op>>
  /\ UNCHANGED <<engineVars, subject>>
  /\ UNCHANGED callVars

InitAssigner ==
  /\ pc = "idle"
  /\ email_date = None
  /\ scanning_year = 0
  /\ today = Today
  /\ NoYearQuery
  /\ NoMessage
  /\ training_examples = <<>>
  /\ amount_classifier = NoClassifier
  /\ model_file \in {NoFile, SavedFile, LegacyFile}
  /\ tpc = "idle"
  /\ last_op = "none"
  /\ rpc = "idle"
  /\ seen = "nothing"
  /\ extracted = NoResult
  /\ predicted = <<>>
  /\ NoCall

NextAssigner ==
  \/ AddTrainingExample
  \/ LoadModel
  \/ TrainClassifiers
  \/ TrainInstall
  \/ TrainFit
  \/ ExtractDataCheck
  \/ ExtractDataClassify
  \/ ExtractDataReturn

SpecAssigner == InitAssigner /\ [][NextAssigner]_vars

\* C6: whenever extract_data finds no amount classifier in the extractor
\* (fresh extractor, load_model on a missing file, train_classifiers with
\* fewer than 2 examples), it returns the mapping basic_extraction returns
\* for the same text and email type.
C6_FallbackEquivalence ==
  (rpc = "done" /\ seen = "none")
    => extracted = [raised |-> FALSE, fields |-> basic_extraction(body.money, email_type)]

C6_Witness ==
  /\ rpc = "done"
  /\ seen = "none"
  /\ last_op = "train_too_few"
  /\ Len(training_examples) = 1
  /\ body.money = <<Line("totalt", 38913), Line("tjanar_eur", 12850)>>
  /\ extracted.fields["hostEarningsEur"] = 38913

\* C7: an extract_data call that runs while train_classifiers runs never
\* finds in amount_classifier a classifier that is installed but not fitted.
C7_NeverUnfitted ==
  seen # "unfitted"


\* ------------------------------------------------------------------------
\* Amount strings: normalize_amount (payout parser) and parse_amount (assigner)
\* ------------------------------------------------------------------------
\* A string is a sequence of characters; "nbsp" stands for U+00A0.
DigitChars == <<"0", "1", "2", "3", "4", "5", "6", "7", "8", "9">>

IsDigit(c) == \E i \in 1..10 : DigitChars[i] = c

DigitValue(c) == (CHOOSE i \in 1..10 : DigitChars[i] = c) - 1

RECURSIVE Pow10(_)
Pow10(k) == IF k = 0 THEN 1 ELSE 10 * Pow10(k - 1)

\* str.replace(old, new) for a one-character old; new = <<>> removes it
RECURSIVE Replace(_, _, _)
Replace(str, old, new) ==
  IF str = <<>> THEN <<>>
  ELSE (IF Head(str) = old THEN new ELSE <<Head(str)>>) \o Replace(Tail(str), old, new)

Contains(str, c) == \E i \in 1..Len(str) : str[i] = c

\* str.rfind(c), counted from 1; 0 when c does not occur
RFind(str, c) ==
  IF Contains(str, c) THEN SetMax({i \in 1..Len(str) : str[i] = c}) ELSE 0

Count(str, c) == Cardinality({i \in 1..Len(str) : str[i] = c})

\* len(str.split(c)[-1])
LastPartLen(str, c) == Len(str) - RFind(str, c)

\* float(str) for the strings that reach it here: digits with at most one
\* dot and at least one digit denote num / 10^exp; anything else raises
\* ValueError
CanFloat(str) ==
  /\ \A i \in 1..Len(str) : IsDigit(str[i]) \/ str[i] = "."
  /\ Count(str, ".") <= 1
  /\ \E i \in 1..Len(str) : IsDigit(str[i])

RECURSIVE DigitsValue(_)
DigitsValue(str) ==
  IF str = <<>> THEN 0
  ELSE 10 * DigitsValue(SubSeq(str, 1, Len(str) - 1)) + DigitValue(str[Len(str)])

Float(str) ==
  [num |-> DigitsValue(Replace(str, ".", <<>>)),
   exp |-> IF Contains(str, ".") THEN LastPartLen(str, ".") ELSE 0]

Zero == [num |-> 0, exp |-> 0]

normalize_amount(amount_str) ==
  IF amount_str = <<>> THEN Zero
  ELSE
    LET cleaned == Replace(Replace(amount_str, " ", <<>>), "nbsp", <<>>)
        both == Contains(cleaned, ",") /\ Contains(cleaned, ".")
        mixed == IF RFind(cleaned, ".") > RFind(cleaned, ",")
                 THEN Replace(cleaned, ",", <<>>)
                 ELSE Replace(Replace(cleaned, ".", <<>>), ",", <<".">>)
        decimal == IF LastPartLen(cleaned, ",") = 2
                   THEN Replace(cleaned, ",", <<".">>)
                   ELSE cleaned
        \* parts = cleaned.split(','); rejoined with a dot when there are
        \* two parts and the second has two characters
        rejoined == IF Count(decimal, ",") = 1 /\ LastPartLen(decimal, ",") = 2
                    THEN Replace(decimal, ",", <<".">>)
                    ELSE decimal
        final == IF both THEN mixed
                 ELSE IF Contains(cleaned, ",") THEN rejoined
                 ELSE cleaned
    IN IF CanFloat(final) THEN Float(final) ELSE Zero

parse_amount(amount_str) ==
  LET clean == Replace(Replace(amount_str, " ", <<>>), "nbsp", <<>>)
      final == IF Contains(clean, ",") /\ Contains(clean, ".")
               THEN Replace(clean, ",", <<>>)
               ELSE IF Contains(clean, ",")
               THEN Replace(clean, ",", <<".">>)
               ELSE clean
  IN IF CanFloat(final) THEN Float(final) ELSE Zero

\* How an amount of `cents` is written under a convention
MaxGroups == 3

ThousandsSep(conv) ==
  CASE conv = "sv_space" -> " "
    [] conv = "sv_nbsp" -> "nbsp"
    [] conv = "us" -> ","

DecimalSep(conv) == IF conv = "us" THEN "." ELSE ","

RECURSIVE DigitsOf(_)
DigitsOf(n) ==
  IF n < 10 THEN <<DigitChars[n + 1]>>
  ELSE DigitsOf(n \div 10) \o <<DigitChars[(n % 10) + 1]>>

RECURSIVE Grouped(_, _)
Grouped(digits, sep) ==
  IF Len(digits) <= 3 THEN digits
  ELSE Grouped(SubSeq(digits, 1, Len(digits) - 3), sep) \o <<sep>>
       \o SubSeq(digits, Len(digits) - 2, Len(digits))

AmountText(cents, conv, thousands, decimals) ==
  LET whole == DigitsOf(cents \div 100)
      frac == <<DigitChars[((cents % 100) \div 10) + 1], DigitChars[(cents % 10) + 1]>>
  IN (IF thousands THEN Grouped(whole, ThousandsSep(conv)) ELSE whole)
     \o (IF decimals THEN <<DecimalSep(conv)>> \o frac ELSE <<>>)

Conventions == {"sv_space", "sv_nbsp", "us"}

Wholes == {w \in {0, 7, 12, 123, 999, 1000, 1234, 9999, 12345, 123456, 1234567} :
             w < Pow10(3 * MaxGroups)}

Fractions == {0, 5, 50, 56}

AmountParsers == {"normalize_amount", "parse_amount"}

AmountCalls ==
  {[fn |-> f, cents |-> 100 * w + c,
    amount_str |-> AmountText(100 * w + c, conv, th, dec)] :
     f \in AmountParsers, w \in Wholes, c \in Fractions,
     conv \in Conventions, th \in BOOLEAN, dec \in BOOLEAN}

NoEngine ==
  /\ email_date = None
  /\ scanning_year = 0
  /\ today = Today
  /\ NoYearQuery
  /\ NoMessage

InitAmount ==
  /\ pc = "call"
  /\ call \in {c \in AmountCalls :
                 c.cents % 100 # 0 => Contains(c.amount_str, DecimalSep("us"))
                                      \/ Contains(c.amount_str, DecimalSep("sv_space"))}
  /\ ret = <<>>
  /\ classifier_file = TRUE
  /\ NoEngine
  /\ NoExtractor

NormalizeAmount ==
  /\ pc = "call"
  /\ call.fn = "normalize_amount"
  /\ ret' = normalize_amount(call.amount_str)
  /\ pc' = "done"
  /\ UNCHANGED <<call, classifier_file, email_date, scanning_year, today,
                 month, day, year_out, email_type, subject, body, data>>
  /\ UNCHANGED mlVars

ParseAmount ==
  /\ pc = "call"
  /\ call.fn = "parse_amount"
  /\ ret' = parse_amount(call.amount_str)
  /\ pc' = "done"
  /\ UNCHANGED <<call, classifier_file, email_date, scanning_year, today,
                 month, day, year_out, email_type, subject, body, data>>
  /\ UNCHANGED mlVars

NextAmount == NormalizeAmount \/ ParseAmount

SpecAmount == InitAmount /\ [][NextAmount]_vars

\* the returned float equals the amount of `cents`
SameValue(r, cents) == r.num * 100 = cents * Pow10(r.exp)

\* C11: every amount written in the Swedish or the US convention, with or
\* without a thousands separator and with or without decimals, is
\* normalised to the value it denotes.
C11_NormalisedValue ==
  pc = "done" => SameValue(ret, call.cents)


\* ------------------------------------------------------------------------
\* MLClassifierBridge served by worker_mode
\* ------------------------------------------------------------------------
\* label_encoder of AirbnbEmailClassifier
Categories ==
  {"booking_confirmation", "booking_reminder", "payout", "cancellation",
   "change_request", "modification"}

\* probability[prediction] of the loaded forest, in tenths
ClassifierConfidences == {4, 9}

\* one field of the request object: present with a value, or not a key
Field(v) == [present |-> TRUE, value |-> v]

MissingField == [present |-> FALSE, value |-> <<>>]

\* the empty string as a subject and as a body: nothing matches in it
EmptySubject == PlainSubject

EmptyText == EmptyBody

\* input_data.get(key, default)
Get(field, default) == IF field.present THEN field.value ELSE default

RaisingBody == [EmptyBody EXCEPT !.comb = <<Tok(31, 2, TRUE, 0), Tok(13, 7, TRUE, 0)>>]

BridgeBodies == {[EmptyBody EXCEPT !.money = txt] : txt \in ReaderTexts} \cup {RaisingBody}

BridgeSubjects == {PlainSubject, ConfirmSubject(FixedName, Tok(12, 5, TRUE, 0))}

Requests ==
  {[shape |-> "array", subject |-> MissingField, sender |-> MissingField,
    body |-> MissingField, emailDate |-> MissingField]}
  \cup
  {[shape |-> "object", subject |-> s, sender |-> sn, body |-> b, emailDate |-> ed] :
     s \in {MissingField} \cup {Field(x) : x \in BridgeSubjects},
     sn \in {MissingField, Field(<<"a", "@", "b">>)},
     b \in {MissingField} \cup {Field(x) : x \in BridgeBodies},
     ed \in {MissingField, Field([y |-> 2025, m |-> 3, d |-> 1])}}

\* extract_data in one thread: line 296, then either path
extract_data(clf, text, typ, preds) ==
  IF no_amount_classifier(clf) THEN basic_extraction(text, typ)
  ELSE learned_results(amount_candidates(text), preds)

PredictionChoices(clf, text) ==
  IF clf.fitted THEN [1..Len(amount_candidates(text)) -> Predictions(clf)] ELSE {<<>>}

\* lines 60-76: the engine's values, overridden by the assigner's
merge(old_data, extracted_data) ==
  [k \in DOMAIN old_data |->
     IF k \in MoneyFields /\ extracted_data[k] # Absent
       THEN extracted_data[k] ELSE old_data[k]]

ErrorObject == [kind |-> "error"]

RaisedError == [kind |-> "raised"]

\* classify_and_extract (lines 45-82) from line 60 on: old_data and
\* extracted_data are merged, the classifier's confidence is added
classify_and_extract(old_data, extracted_data, conf) ==
  IF old_data.raised THEN RaisedError
  ELSE [kind |-> "result", record |-> merge(old_data, extracted_data),
        confidence |-> conf]

\* worker_mode up to the READY line: exit(1) without the classifier file,
\* else the bridge is built (load_model of both models)
WorkerMode ==
  /\ pc = "start"
  /\ IF classifier_file
       THEN /\ pc' = "ready"
            /\ ret' = <<>>
            /\ amount_classifier' = IF model_file.exists
                                      THEN model_file.amount_classifier
                                      ELSE amount_classifier
            /\ training_examples' = IF model_file.exists
                                      THEN model_file.training_examples
                                      ELSE training_examples
       ELSE /\ pc' = "exited"
            /\ ret' = [kind |-> "exit", code |-> 1]
            /\ UNCHANGED <<amount_classifier, training_examples>>
  /\ UNCHANGED <<call, classifier_file, model_file, tpc, last_op, rpc, seen, extracted, predicted>>
  /\ UNCHANGED <<email_date, scanning_year, today, month, day, year_out,
                 email_type, subject, body, data>>

\* the next request reaches the bridge; what the previous one left behind
\* is gone
Receive(req) ==
  /\ call' = req
  /\ ret' = <<>>
  /\ subject' = PlainSubject
  /\ body' = EmptyBody
  /\ email_date' = None
  /\ email_type' = "none"
  /\ data' = EmptyData("none")
  /\ extracted' = NoResult
  /\ predicted' = <<>>

\* bridge.classify_and_extract on the message the request in `call` leads
\* to: the classifier answers (et, conf), the assigner and the engine extract;
\* `answer` is what the caller makes of an exception
Serve(answer) ==
  /\ subject' = Get(call.subject, EmptySubject)
  /\ body' = Get(call.body, EmptyText)
  /\ email_date' = Get(call.emailDate, None)
  /\ \E et \in Categories, conf \in ClassifierConfidences :
       \E preds \in PredictionChoices(amount_classifier, body'.money) :
         /\ email_type' = et
         /\ predicted' = preds
         /\ extracted' = [raised |-> FALSE,
                          fields |-> extract_data(amount_classifier, body'.money, et, preds)]
         /\ data' = extract_booking_data(et, subject', body', email_date', 0, today)
         /\ LET out == classify_and_extract(data', extracted'.fields, conf)
            IN ret' = IF out.kind = "raised" THEN answer ELSE out

\* sys.stdin.readline() of the worker loop (line 146)
WorkerRead ==
  /\ pc = "ready"
  /\ pc' = "serving"
  /\ \E req \in Requests : Receive(req)
  /\ UNCHANGED <<classifier_file, scanning_year, today, month, day, year_out>>
  /\ UNCHANGED <<training_examples, amount_classifier, model_file, tpc, last_op, rpc, seen>>

\* the rest of the loop body (lines 154-174): the line is parsed, served
\* and answered; whatever is raised becomes an error object
WorkerRequest ==
  /\ pc = "serving"
  /\ pc' = "ready"
  /\ IF call.shape = "object"
       THEN Serve(ErrorObject)
       ELSE /\ ret' = ErrorObject
            /\ UNCHANGED <<subject, body, email_date, email_type, data, extracted, predicted>>
  /\ UNCHANGED <<call, classifier_file, scanning_year, today, month, day, year_out>>
  /\ UNCHANGED <<training_examples, amount_classifier, model_file, tpc, last_op, rpc, seen>>

InitBridge ==
  /\ pc = "start"
  /\ call = <<>>
  /\ ret = <<>>
  /\ classifier_file \in BOOLEAN
  /\ NoEngine
  /\ training_examples = <<>>
  /\ amount_classifier = NoClassifier
  /\ model_file \in {NoFile, SavedFile}
  /\ tpc = "idle"
  /\ last_op = "none"
  /\ rpc = "idle"
  /\ seen = "nothing"
  /\ extracted = NoResult
  /\ predicted = <<>>

NextBridge == WorkerMode \/ WorkerRead \/ WorkerRequest

SpecBridge == InitBridge /\ [][NextBridge]_vars

\* a request has been answered
Answered == call # <<>> /\ ret # <<>>

\* C12: without a trained classifier model a request completes with the
\* category "unknown" and confidence 0; the process is not terminated.
C12_ModelUnavailable ==
  ~classifier_file
    => /\ pc # "exited"
       /\ Answered => /\ ret.kind = "result"
                      /\ ret.record.emailType = "unknown"
                      /\ ret.confidence = 0

\* C13: a request object without subject, sender or body is answered with
\* a structured error object.
C13_MalformedInput ==
  (pc = "ready" /\ Answered /\ call.shape = "object"
     /\ (~call.subject.present \/ ~call.sender.present \/ ~call.body.present))
    => ret.kind = "error"


\* ------------------------------------------------------------------------
\* EnhancedPayoutParser: the payout equation of the body, the SEK amount of
\* the subject
\* ------------------------------------------------------------------------
\* A payout body is [form, x, y, z]: "€x + €y = z kr" (form "plus"),
\* "€x = z kr" (form "single"), or no equation; x, y, z are amount strings.
\* A payout subject is [has, amt]: "En utbetalning på <amt> kr ..." or not.
WhiteSpace == {" ", "nbsp"}

\* the three equation patterns of eur_patterns: whether the pattern has a
\* "+", its number of groups, the characters its amount group takes as
\* thousands and as decimal separator
EquationPatterns ==
  <<[plus |-> TRUE, groups |-> 3, th |-> WhiteSpace \cup {","}, dec |-> {".", ","}],
    [plus |-> FALSE, groups |-> 2, th |-> WhiteSpace \cup {","}, dec |-> {".", ","}],
    [plus |-> TRUE, groups |-> 3, th |-> {"."}, dec |-> {","}]>>

DigitAt(str, i) == i <= Len(str) /\ IsDigit(str[i])

RECURSIVE DigitRun(_, _)
\* the index of the last digit of the run of digits that starts at i + 1
DigitRun(str, i) == IF DigitAt(str, i + 1) THEN DigitRun(str, i + 1) ELSE i

RECURSIVE GroupsEnd(_, _, _)
\* (?:[sep]\d{3})* from index i + 1 on
GroupsEnd(str, i, th) ==
  IF /\ i + 4 <= Len(str)
     /\ str[i + 1] \in th
     /\ DigitAt(str, i + 2) /\ DigitAt(str, i + 3) /\ DigitAt(str, i + 4)
    THEN GroupsEnd(str, i + 4, th)
    ELSE i

\* (?:[dec]\d{2})? from index i + 1 on
DecimalsEnd(str, i, dec) ==
  IF i + 3 <= Len(str) /\ str[i + 1] \in dec /\ DigitAt(str, i + 2) /\ DigitAt(str, i + 3)
    THEN i + 3 ELSE i

\* how much of str the amount group \d+(?:[th]\d{3})*(?:[dec]\d{2})? takes
\* from its start; 0 when it does not match
GroupPrefix(str, th, dec) ==
  IF DigitRun(str, 0) = 0 THEN 0
  ELSE DecimalsEnd(str, GroupsEnd(str, DigitRun(str, 0), th), dec)

\* the group takes the whole amount, so that what follows it in the
\* pattern ("+", "=", "kr") can match
GroupMatches(str, pat) == str # <<>> /\ GroupPrefix(str, pat.th, pat.dec) = Len(str)

\* re.search(pattern, body)
EquationMatches(pat, txt) ==
  CASE txt.form = "plus" ->
         IF pat.plus
           THEN GroupMatches(txt.x, pat) /\ GroupMatches(txt.y, pat) /\ GroupMatches(txt.z, pat)
           ELSE GroupMatches(txt.y, pat) /\ GroupMatches(txt.z, pat)
    [] txt.form = "single" ->
         ~pat.plus /\ GroupMatches(txt.x, pat) /\ GroupMatches(txt.z, pat)
    [] OTHER -> FALSE

\* arithmetic on the floats num / 10^exp
Plus(a, b) ==
  LET e == Max2(a.exp, b.exp)
  IN [num |-> a.num * Pow10(e - a.exp) + b.num * Pow10(e - b.exp), exp |-> e]

Greater(a, b) == a.num * Pow10(b.exp) > b.num * Pow10(a.exp)

RECURSIVE LongDivision(_, _, _, _)
LongDivision(q, r, den, k) ==
  IF k = 0 THEN [q |-> q, r |-> r]
  ELSE LongDivision(10 * q + ((10 * r) \div den), (10 * r) % den, den, k - 1)

RateDecimals == 4

\* round(a / b, 4), in units of 10^-4
Round4(a, b) ==
  LET e == Max2(a.exp, b.exp)
      n == a.num * Pow10(e - a.exp)
      d == b.num * Pow10(e - b.exp)
      res == LongDivision(n \div d, n % d, d, RateDecimals)
  IN IF 2 * res.r >= d THEN res.q + 1 ELSE res.q

NoBreakdown == [hostEarningsEur |-> Zero, cleaningFeeEur |-> Zero, totalEur |-> Zero, payoutSek |-> Zero]

\* the amounts the generic pattern "€\s*(amount)" finds, normalised
generic_eur_amounts(txt) ==
  LET pat == EquationPatterns[1]
      found(str) == normalize_amount(SubSeq(str, 1, GroupPrefix(str, pat.th, pat.dec)))
      all == CASE txt.form = "plus" -> {found(txt.x), found(txt.y)}
               [] txt.form = "single" -> {found(txt.x)}
               [] OTHER -> {}
  IN {a \in all : a.num > 0}

\* lines 90-111: the result of the equation pattern number i, when it
\* matches and has three groups
equation_result(pat, txt) ==
  IF pat.plus
    THEN LET eur1 == normalize_amount(txt.x)
             eur2 == normalize_amount(txt.y)
         IN [hostEarningsEur |-> eur1, cleaningFeeEur |-> eur2,
             totalEur |-> Plus(eur1, eur2), payoutSek |-> normalize_amount(txt.z)]
    ELSE LET eur == normalize_amount(txt.x)
         IN [hostEarningsEur |-> eur, cleaningFeeEur |-> Zero,
             totalEur |-> eur, payoutSek |-> normalize_amount(txt.z)]

RECURSIVE equation_loop(_, _)
equation_loop(i, txt) ==
  IF i > Len(EquationPatterns) THEN <<>>
  ELSE IF EquationMatches(EquationPatterns[i], txt) /\ EquationPatterns[i].groups = 3
    THEN <<equation_result(EquationPatterns[i], txt)>>
    ELSE equation_loop(i + 1, txt)

extract_eur_breakdown(txt) ==
  LET hit == equation_loop(1, txt)
      eur_amounts == generic_eur_amounts(txt)
      largest == CHOOSE a \in eur_amounts : \A b \in eur_amounts : ~Greater(b, a)
  IN IF hit # <<>> THEN hit[1]
     ELSE IF eur_amounts # {}
       THEN [NoBreakdown EXCEPT !.hostEarningsEur = largest, !.totalEur = largest]
     ELSE NoBreakdown

\* sek_subject_pattern: ([\d\s,]+(?:\.\d{2})?) *kr
SubjectGroupMatches(str) ==
  LET body_end == IF Len(str) >= 3 /\ str[Len(str) - 2] = "."
                     /\ DigitAt(str, Len(str) - 1) /\ DigitAt(str, Len(str))
                  THEN Len(str) - 3 ELSE Len(str)
  IN /\ body_end >= 1
     /\ \A i \in 1..body_end : IsDigit(str[i]) \/ str[i] \in WhiteSpace \/ str[i] = ","

\* extract_sek_from_subject: None is <<>>
extract_sek_from_subject(subj) ==
  IF subj.has /\ SubjectGroupMatches(subj.amt) THEN <<normalize_amount(subj.amt)>> ELSE <<>>

\* lines 139-160: the record built from the subject's amount (None is <<>>)
\* and the breakdown of the body
payout_result(sek_amount, eur_data) ==
  LET fill(payoutSek) ==
        [hostEarningsEur |-> eur_data.hostEarningsEur,
         cleaningFeeEur |-> eur_data.cleaningFeeEur,
         totalEur |-> eur_data.totalEur,
         payoutSek |-> payoutSek,
         exchangeRate |-> IF eur_data.totalEur.num > 0 /\ payoutSek.num > 0
                            THEN Round4(payoutSek, eur_data.totalEur)
                            ELSE Absent]
  IN fill(IF eur_data.payoutSek.num > 0 THEN eur_data.payoutSek
          ELSE IF sek_amount # <<>> /\ sek_amount[1].num # 0 THEN sek_amount[1]
          ELSE Zero)

parse_payout_email(subj, txt) ==
  payout_result(extract_sek_from_subject(subj), extract_eur_breakdown(txt))

\* the payouts of the model
HostEarnings == {36860, 239473, 100000}

CleaningFees == {4560, 10000}

Payouts == {461287, 2752894, 1200000}

PayoutSubjects ==
  {[has |-> FALSE, amt |-> <<>>, sek |-> Absent]}
    \cup {[has |-> TRUE, amt |-> AmountText(z, "sv_space", TRUE, TRUE), sek |-> z] : z \in Payouts}

PayoutCalls ==
  {[subject |-> sj, form |-> f, x |-> x, y |-> y, z |-> z, conv |-> conv, th |-> th] :
     sj \in PayoutSubjects, f \in {"plus", "single", "none"},
     x \in HostEarnings, y \in CleaningFees, z \in Payouts,
     conv \in Conventions, th \in BOOLEAN}

\* the body a call stands for
PayoutBody(c) ==
  [form |-> c.form,
   x |-> AmountText(c.x, c.conv, c.th, TRUE),
   y |-> AmountText(c.y, c.conv, c.th, TRUE),
   z |-> AmountText(c.z, c.conv, c.th, TRUE)]

InitPayout ==
  /\ pc = "call"
  /\ call \in {c \in PayoutCalls : c.form # "plus" => c.y = 4560}
  /\ ret = <<>>
  /\ classifier_file = TRUE
  /\ NoEngine
  /\ NoExtractor

ParsePayoutEmail ==
  /\ pc = "call"
  /\ ret' = parse_payout_email(call.subject, PayoutBody(call))
  /\ pc' = "done"
  /\ UNCHANGED <<call, classifier_file, email_date, scanning_year, today,
                 month, day, year_out, email_type, subject, body, data>>
  /\ UNCHANGED mlVars

NextPayout == ParsePayoutEmail

SpecPayout == InitPayout /\ [][NextPayout]_vars

\* Z / total rounded to four decimals, for amounts in cents
RateOf(z, total) == Round4([num |-> z, exp |-> 2], [num |-> total, exp |-> 2])

\* C14: for a body with "€X + €Y = Z kr" or "€X = Z kr", parse_payout_email
\* returns totalEur = the sum of the EUR terms, hostEarningsEur = X,
\* cleaningFeeEur = Y (0 without a second term), payoutSek = Z whatever the
\* subject holds, and exchangeRate = Z / totalEur rounded to 4 decimals.
C14_PayoutEquation ==
  (pc = "done" /\ call.form \in {"plus", "single"})
    => LET fee == IF call.form = "plus" THEN call.y ELSE 0
       IN /\ SameValue(ret.hostEarningsEur, call.x)
          /\ SameValue(ret.cleaningFeeEur, fee)
          /\ SameValue(ret.totalEur, call.x + fee)
          /\ SameValue(ret.payoutSek, call.z)
          /\ ret.exchangeRate = RateOf(call.z, call.x + fee)


\* ------------------------------------------------------------------------
\* Nights against the two dates (SpecDates)
\* ------------------------------------------------------------------------
\* C15: in every emitted booking_confirmation record that has checkInDate,
\* checkOutDate and nights, nights is the number of days from check-in to
\* check-out.
C15_NightsConsistent ==
  (Emitted /\ email_type = "booking_confirmation"
     /\ Has(data.checkInDate) /\ Has(data.checkOutDate) /\ data.nights # Absent)
    => data.nights = DaysBetween(data.checkOutDate, data.checkInDate)


\* ------------------------------------------------------------------------
\* One currency of host earnings per record (SpecMoney)
\* ------------------------------------------------------------------------
\* C16: no emitted booking_confirmation record has both hostEarningsEur and
\* hostEarningsSek present, also when the EUR earnings found first are 0.
C16_CurrencyExclusive ==
  (Emitted /\ email_type = "booking_confirmation")
    => ~(data.hostEarningsEur # Absent /\ data.hostEarningsSek # Absent)


\* ------------------------------------------------------------------------
\* The learned path of extract_data, training and labelling (SpecAssigner)
\* ------------------------------------------------------------------------
\* extract_data found a fitted classifier at line 296 and returned from the
\* learned path
LearnedPath == rpc = "done" /\ seen = "fitted" /\ ~extracted.raised

\* candidate i was predicted a field (not "other") with probability > 0.5
Confident(i) ==
  predicted[i].label # "other" /\ predicted[i].confidence > ConfidenceThreshold

\* C17: with a trained model, when no amount candidate is predicted a field
\* with probability above 0.5, extract_data returns the money fields that
\* basic_extraction returns for the same text.
C17_LowConfidenceFallback ==
  (LearnedPath /\ \A i \in DOMAIN predicted : ~Confident(i))
    => extracted.fields = basic_extraction(body.money, email_type)

\* C18: on the learned path a field is in the result only if some amount
\* candidate was predicted that field with probability strictly above 0.5.
C18_ConfidenceThreshold ==
  LearnedPath
    => \A f \in MoneyFields :
         extracted.fields[f] # Absent
           => \E i \in DOMAIN predicted : predicted[i].label = f /\ Confident(i)

\* a field was assigned, and another candidate, predicted a field with
\* probability exactly 0.5, was left out
C18_Witness ==
  /\ LearnedPath
  /\ \E f \in MoneyFields : extracted.fields[f] # Absent
  /\ \E i \in DOMAIN predicted :
       /\ predicted[i].label # "other"
       /\ predicted[i].confidence = ConfidenceThreshold
       /\ extracted.fields[predicted[i].label] = Absent

\* a call of train_classifiers has returned and nothing was called since
TrainReturned ==
  tpc = "idle" /\ last_op \in {"train_classifiers", "train_too_few", "train_no_amounts"}

\* what train_classifiers leaves in a fresh extractor that holds the log
retrained(log) ==
  IF Len(log) >= 2 /\ Len(amount_labels(log)) > 1
    THEN Fitted(amount_labels(log))
    ELSE NoClassifier

C20_LabelTolerance ==
  (tpc = "idle" /\ last_op = "train_classifiers")
    => \A k \in 1..Len(training_examples) :
         LET ex == training_examples[k]
             cands == amount_candidates(ex.email_text)
             labs == labels_of(cands, ex.labels)
         IN \A i \in 1..Len(cands) :
              labs[i] # "other" => AbsVal(cands[i].value - ex.labels[labs[i]]) < 1


\* ------------------------------------------------------------------------
\* The pair-selection fallback and the years of a stay (SpecDates)
\* ------------------------------------------------------------------------
\* C21: when the pair-selection fallback runs and two resolved dates are 1
\* to 30 days apart, the emitted check-out is 1 to 30 days after the emitted
\* check-in; when no two resolved dates are 1 to 30 days apart, or fewer
\* than two dates are valid, the two date fields stay as they were.
C21_PairSeparation ==
  FallbackRan
    => IF CandidatePairs # {}
         THEN <<data.checkInDate, data.checkOutDate>> \in CandidatePairs
         ELSE /\ data.checkInDate = BeforeFallback.checkInDate
              /\ data.checkOutDate = BeforeFallback.checkOutDate

\* the check-in and check-out tokens a confirmation gives, by the path that
\* reads them: the combined fragment, the date pair, or the check-out line
\* with the check-in of the subject or of the check-in line
StayTokens ==
  IF body.comb # <<>> THEN body.comb
  ELSE IF body.pair # <<>> THEN body.pair
  ELSE IF body.out = <<>> THEN <<>>
  ELSE IF subject.form = "confirm" /\ subject.tok # NoTok THEN <<subject.tok, body.out[1]>>
  ELSE IF body.inn # <<>> THEN <<body.inn[1], body.out[1]>>
  ELSE <<>>

\* C22: when a booking_confirmation gives check-in and check-out without
\* years and the check-out month is earlier than the check-in month, the
\* emitted check-out lies in the calendar year right after the year of the
\* emitted check-in, on every path that resolves the two dates.
C22_CrossYearStay ==
  (/\ Emitted
   /\ email_type = "booking_confirmation"
   /\ StayTokens # <<>>
   /\ StayTokens[1].yr = 0 /\ StayTokens[2].yr = 0
   /\ StayTokens[2].mon < StayTokens[1].mon)
    => /\ Has(data.checkInDate) /\ Has(data.checkOutDate)
       /\ data.checkOutDate.y = data.checkInDate.y + 1

\* C23: for a cancellation whose subject carries a year-less "D-D month"
\* range, the year of the emitted checkInDate and checkOutDate is the year
\* get_reference_year resolves for the start of the range from the anchor
\* date.
C23_CancellationYear ==
  LET year == GRY(Ctx(email_date, scanning_year, today), subject.tok.mon, subject.tok.d)
  IN (/\ Emitted
      /\ email_type = "cancellation"
      /\ subject.form = "range"
      /\ year # Raised)
       => /\ Has(data.checkInDate) /\ data.checkInDate.y = year
          /\ Has(data.checkOutDate) /\ data.checkOutDate.y = year


\* ------------------------------------------------------------------------
\* The currency of the fields basic_extraction fills (SpecAssigner)
\* ------------------------------------------------------------------------
\* C24: every EUR field of the mapping basic_extraction returns holds the
\* value of an amount candidate whose matched text carries the euro symbol,
\* and hostEarningsSek holds the value of a candidate whose matched text
\* carries "kr".
C24_CurrencyFromSymbol ==
  (rpc = "done" /\ seen = "none" /\ ~extracted.raised)
    => \A f \in MoneyFields :
         extracted.fields[f] # Absent
           => \E i \in 1..Len(amount_candidates(body.money)) :
                /\ amount_candidates(body.money)[i].value = extracted.fields[f]
                /\ amount_candidates(body.money)[i].cur
                     = (IF f = "hostEarningsSek" THEN "sek" ELSE "eur")


\* ------------------------------------------------------------------------
\* MLDataExtractor.clean_guest_name (lines 139-180)
\* ------------------------------------------------------------------------
\* A raw name is a sequence of characters; "nl" stands for a newline.
LowerLetters == <<"a", "e", "i", "k", "n", "p", "r", "t">>

UpperLetters == <<"A", "E", "I", "K", "N", "P", "R", "T">>

\* str.isalpha() of one character
IsAlpha(c) == \E i \in 1..Len(LowerLetters) : c = LowerLetters[i] \/ c = UpperLetters[i]

\* str.upper() and str.lower() of one character
Upper(c) ==
  IF \E i \in 1..Len(LowerLetters) : c = LowerLetters[i]
    THEN UpperLetters[CHOOSE i \in 1..Len(LowerLetters) : c = LowerLetters[i]]
    ELSE c

Lower(c) ==
  IF \E i \in 1..Len(UpperLetters) : c = UpperLetters[i]
    THEN LowerLetters[CHOOSE i \in 1..Len(UpperLetters) : c = UpperLetters[i]]
    ELSE c

\* \s
WhiteChars == {" ", "nl"}

\* the character class [kr\s\d.,€$] of lines 145 and 146
EdgeChars == {"k", "r", ".", ",", "€", "$"} \cup WhiteChars \cup Range(DigitChars)

RECURSIVE CollapseWhite(_)
\* re.sub(r'\s+', ' ', s)
CollapseWhite(s) ==
  IF s = <<>> THEN <<>>
  ELSE IF Head(s) \in WhiteChars
    THEN <<" ">> \o CollapseWhite(LStrip(s, WhiteChars))
    ELSE <<Head(s)>> \o CollapseWhite(Tail(s))

RECURSIVE SplitOn(_, _)
\* str.split(sep) for a one-character sep: the parts, empty ones included
SplitOn(s, sep) ==
  IF ~Contains(s, sep) THEN <<s>>
  ELSE LET k == CHOOSE i \in 1..Len(s) : s[i] = sep /\ \A j \in 1..(i - 1) : s[j] # sep
       IN <<SubSeq(s, 1, k - 1)>> \o SplitOn(SubSeq(s, k + 1, Len(s)), sep)

RECURSIVE JoinWith(_, _)
\* sep.join(parts)
JoinWith(parts, sep) ==
  IF parts = <<>> THEN <<>>
  ELSE IF Len(parts) = 1 THEN parts[1]
  ELSE parts[1] \o <<sep>> \o JoinWith(Tail(parts), sep)

\* part[0].upper() + part[1:].lower(), part.upper() for one character
title_part(part) ==
  [i \in 1..Len(part) |-> IF i = 1 THEN Upper(part[i]) ELSE Lower(part[i])]

RECURSIVE title_parts(_)
\* the title-cased parts of a list, the empty ones skipped
title_parts(parts) ==
  IF parts = <<>> THEN <<>>
  ELSE (IF Head(parts) = <<>> THEN <<>> ELSE <<title_part(Head(parts))>>)
         \o title_parts(Tail(parts))

\* lines 158-169: a word with a hyphen is title-cased part by part
title_word(word) ==
  IF Contains(word, "-") THEN JoinWith(title_parts(SplitOn(word, "-")), "-")
  ELSE title_part(word)

RECURSIVE title_words(_)
title_words(words) ==
  IF words = <<>> THEN <<>>
  ELSE (IF Head(words) = <<>> THEN <<>> ELSE <<title_word(Head(words))>>)
         \o title_words(Tail(words))

\* clean_guest_name: None is <<>>
clean_guest_name(name) ==
  IF Strip(name, WhiteChars) = <<>> THEN <<>>
  ELSE LET edges == RStrip(LStrip(name, EdgeChars), EdgeChars)
           spaced == CollapseWhite(Strip(edges, WhiteChars))
           cleaned == IF spaced = <<>> THEN <<>>
                      ELSE JoinWith(title_words(SplitOn(spaced, " ")), " ")
       IN IF Len(cleaned) >= 2 /\ IsAlpha(cleaned[1]) THEN cleaned ELSE <<>>

\* --- the raw names of the model ---
MaxRaw == 4

RawChars == {"A", "E", "n", "r", "k", " ", "nl", "-", "5", "€"}

Peter == <<"P", "e", "t", "e", "r">>

RawNames ==
  {Peter, <<"A", "n", "n", "a", "-", "k", "a", "r", "i", "n">>}
    \cup UNION {[1..k -> RawChars] : k \in 0..MaxRaw}

InitName ==
  /\ pc = "call"
  /\ call \in {[fn |-> "clean_guest_name", name |-> n] : n \in RawNames}
  /\ ret = <<>>
  /\ classifier_file = TRUE
  /\ NoEngine
  /\ NoExtractor

CleanGuestName ==
  /\ pc = "call"
  /\ ret' = clean_guest_name(call.name)
  /\ pc' = "done"
  /\ UNCHANGED <<call, classifier_file, email_date, scanning_year, today,
                 month, day, year_out, email_type, subject, body, data>>
  /\ UNCHANGED mlVars

NextName == CleanGuestName

SpecName == InitName /\ [][NextName]_vars

\* the letters of a string, lower-cased, in order
LettersOf(str) ==
  LET RECURSIVE pick(_)
      pick(t) == IF t = <<>> THEN <<>>
                 ELSE (IF IsAlpha(Head(t)) THEN <<Lower(Head(t))>> ELSE <<>>) \o pick(Tail(t))
  IN pick(str)

\* C26: for a raw name made only of letters, hyphens and whitespace,
\* clean_guest_name returns a name with the same letters in the same order
\* (none dropped, whatever letter the name starts or ends with), each token
\* title-cased, and it rejects the name only when it has fewer than two
\* letters or does not start with a letter.
C26_KeepsEveryLetter ==
  (/\ pc = "done"
   /\ \A i \in 1..Len(call.name) :
        IsAlpha(call.name[i]) \/ call.name[i] = "-" \/ call.name[i] \in WhiteChars)
    => IF ret # <<>>
         THEN /\ LettersOf(ret) = LettersOf(call.name)
              /\ \A i \in 1..Len(ret) :
                   IsAlpha(ret[i])
                     => (ret[i] = Upper(ret[i])) = (i = 1 \/ ret[i - 1] \in {" ", "-"})
         ELSE \/ Len(LettersOf(call.name)) < 2
              \/ ~IsAlpha(Strip(call.name, WhiteChars)[1])


\* ------------------------------------------------------------------------
\* MLDataExtractor.extract_candidate_entities (lines 41-137)
\* ------------------------------------------------------------------------
\* A scanned text is a sequence of items, each separated from the one
\* before it by one blank, or by one newline when its nl is set:
\*   word    a run of letters ("Anna", "A")
\*   kw      "anländer", the last item of a text that has it
\*   stop    "Hej."            dash   "-"          num  "12"
\*   eur     "€ 389,13"        sek    "1 350,96 kr"
\*   eurkr   "€ 100 kr"
\*   sv      "13 jul 2024"     iso    "2024-07-15"
\*   glued   "13 jul 2024-07-15"       slash  "1/2/2024"
ScanWord(chars, nl) == [kind |-> "word", chars |-> chars, len |-> Len(chars), nl |-> nl]

ScanItem(kind, len) == [kind |-> kind, chars |-> <<>>, len |-> len, nl |-> FALSE]

RECURSIVE ItemStart(_, _)
\* offset of item i in the text
ItemStart(text, i) ==
  IF i = 1 THEN 0 ELSE ItemStart(text, i - 1) + text[i - 1].len + 1

Span(a, b) == [start |-> a, end |-> b]

\* amount pattern 1: the euro sign, then digits, blanks and commas; the
\* class takes the whitespace after the amount with it
euro_match(text, i) ==
  CASE text[i].kind = "eur" ->
         <<Span(ItemStart(text, i),
                ItemStart(text, i) + text[i].len + (IF i < Len(text) THEN 1 ELSE 0))>>
    [] text[i].kind = "eurkr" -> <<Span(ItemStart(text, i), ItemStart(text, i) + 6)>>
    [] OTHER -> <<>>

\* amount patterns 2 and 3: digits, blanks and commas up to "kr"; the class
\* takes the whitespace in front of the amount with it
kr_match(text, i) ==
  CASE text[i].kind = "sek" ->
         <<Span(ItemStart(text, i) - (IF i > 1 THEN 1 ELSE 0),
                ItemStart(text, i) + text[i].len)>>
    [] text[i].kind = "eurkr" ->
         <<Span(ItemStart(text, i) + 1, ItemStart(text, i) + text[i].len)>>
    [] OTHER -> <<>>

\* line 59: any(s <= start < e or s < end <= e for s, e in matched_positions)
already_covered(sp, matched) ==
  \E i \in 1..Len(matched) :
    \/ matched[i].start <= sp.start /\ sp.start < matched[i].end
    \/ matched[i].start < sp.end /\ sp.end <= matched[i].end

RECURSIVE claim_spans(_, _)
\* lines 55-75: the matches in pattern order, the covered ones skipped
claim_spans(found, matched) ==
  IF found = <<>> THEN matched
  ELSE IF already_covered(Head(found), matched) THEN claim_spans(Tail(found), matched)
  ELSE claim_spans(Tail(found), Append(matched, Head(found)))

\* the three date patterns (lines 79-83), each match appended (lines 86-99)
sv_date_match(text, i) ==
  IF text[i].kind \in {"sv", "glued"}
    THEN <<Span(ItemStart(text, i), ItemStart(text, i) + 11)>> ELSE <<>>

iso_date_match(text, i) ==
  CASE text[i].kind = "iso" -> <<Span(ItemStart(text, i), ItemStart(text, i) + 10)>>
    [] text[i].kind = "glued" -> <<Span(ItemStart(text, i) + 7, ItemStart(text, i) + 17)>>
    [] OTHER -> <<>>

slash_date_match(text, i) ==
  IF text[i].kind = "slash"
    THEN <<Span(ItemStart(text, i), ItemStart(text, i) + text[i].len)>> ELSE <<>>

pattern_match(text, i, pattern) ==
  CASE pattern = "euro" -> euro_match(text, i)
    [] pattern = "kr" -> kr_match(text, i)
    [] pattern = "sv" -> sv_date_match(text, i)
    [] pattern = "iso" -> iso_date_match(text, i)
    [] OTHER -> slash_date_match(text, i)

RECURSIVE SpansOf(_, _, _)
\* re.finditer of one pattern: its matches from item i on, left to right
SpansOf(text, i, pattern) ==
  IF i > Len(text) THEN <<>>
  ELSE pattern_match(text, i, pattern) \o SpansOf(text, i + 1, pattern)

scan_amounts(text) ==
  claim_spans(SpansOf(text, 1, "euro") \o SpansOf(text, 1, "kr")
                \o SpansOf(text, 1, "kr"), <<>>)

scan_dates(text) ==
  SpansOf(text, 1, "sv") \o SpansOf(text, 1, "iso") \o SpansOf(text, 1, "slash")

\* a word the name patterns take: a letter followed by at least one letter
\* (the patterns are applied with re.IGNORECASE)
NameWord(it) == it.kind = "word" /\ it.len >= 2

RECURSIVE ChainStart(_, _)
\* the first item of the run of name words that ends at item i
ChainStart(text, i) ==
  IF i > 1 /\ NameWord(text[i - 1]) THEN ChainStart(text, i - 1) ELSE i

RECURSIVE NameText(_, _, _)
\* match.group(1): the words of items k..j with what separates them
NameText(text, k, j) ==
  IF k = j THEN text[k].chars
  ELSE NameText(text, k, j - 1) \o <<IF text[j].nl THEN "nl" ELSE " ">> \o text[j].chars

\* where each name pattern may start its group, for the word of item k:
\* pattern 1 anywhere; pattern 2 at the start of the text or behind one of
\* . ! ? and newline; pattern 3 behind whitespace that does not follow a
\* digit, a comma or a dot
NameAnchor(text, k, pattern) ==
  CASE pattern = 1 -> TRUE
    [] pattern = 2 -> k = 1 \/ text[k].nl \/ text[k - 1].kind = "stop"
    [] OTHER -> k > 1 /\ text[k - 1].kind \notin {"stop", "num", "eur", "sv", "iso", "glued", "slash"}

MinNameChars == 2
MaxNameChars == 50

\* lines 112-131 for one pattern: the leftmost match in front of the keyword
name_match(text, pattern) ==
  LET kw == Len(text)
      first == ChainStart(text, kw)
      starts == {k \in first..(kw - 1) : NameAnchor(text, k, pattern)}
      k == SetMin(starts)
      cleaned_name == clean_guest_name(NameText(text, k, kw - 1))
  IN IF text = <<>> \/ text[kw].kind # "kw" \/ starts = {} THEN <<>>
     ELSE IF MinNameChars < Len(cleaned_name) /\ Len(cleaned_name) < MaxNameChars
       THEN <<[start |-> ItemStart(text, k),
               end |-> ItemStart(text, kw - 1) + text[kw - 1].len,
               value |-> cleaned_name]>>
     ELSE <<>>

scan_names(text) == name_match(text, 1) \o name_match(text, 2) \o name_match(text, 3)

extract_candidate_entities(text) ==
  [amounts |-> scan_amounts(text), dates |-> scan_dates(text), names |-> scan_names(text)]

MaxItems == 3

Anna == <<"A", "n", "n", "a">>

ScanWords == {Anna, Peter, <<"A", "n">>, <<"A">>}

Keyword == ScanItem("kw", 8)

ScanItems ==
  {ScanWord(w, nl) : w \in ScanWords, nl \in BOOLEAN}
    \cup {ScanItem("stop", 4), ScanItem("dash", 1), ScanItem("num", 2),
          ScanItem("eur", 8), ScanItem("sek", 11), ScanItem("eurkr", 8),
          ScanItem("sv", 11), ScanItem("iso", 10), ScanItem("glued", 17),
          ScanItem("slash", 8)}

DigitFirst == {"num", "sek", "sv", "iso", "glued", "slash"}

DigitLast == {"num", "eur", "sv", "iso", "glued", "slash"}

\* the texts scanned: the first item starts the text, an amount does not
\* touch the digits of another item, and "kr" is not read as a word
ScanText(t) ==
  /\ t # <<>> => ~t[1].nl
  /\ \A i \in 1..(Len(t) - 1) :
       /\ t[i].kind = "eur" => t[i + 1].kind \notin DigitFirst
       /\ t[i + 1].kind = "sek" => t[i].kind \notin DigitLast
       /\ t[i].kind \in {"sek", "eurkr"} => t[i + 1].kind \notin {"word", "kw"}

ScanTexts ==
  LET plain == UNION {[1..n -> ScanItems] : n \in 0..MaxItems}
  IN {t \in plain : ScanText(t)} \cup {Append(t, Keyword) : t \in {u \in plain : ScanText(u)}}

InitScan ==
  /\ pc = "call"
  /\ call \in {[fn |-> "extract_candidate_entities", text |-> t] : t \in ScanTexts}
  /\ ret = <<>>
  /\ classifier_file = TRUE
  /\ NoEngine
  /\ NoExtractor

ExtractCandidateEntities ==
  /\ pc = "call"
  /\ ret' = extract_candidate_entities(call.text)
  /\ pc' = "done"
  /\ UNCHANGED <<call, classifier_file, email_date, scanning_year, today,
                 month, day, year_out, email_type, subject, body, data>>
  /\ UNCHANGED mlVars

NextScan == ExtractCandidateEntities

SpecScan == InitScan /\ [][NextScan]_vars

\* two spans share at least one character
Overlapping(a, b) == a.start < b.end /\ b.start < a.end

NoOverlap(cands) ==
  \A i, j \in 1..Len(cands) : i # j => ~Overlapping(cands[i], cands[j])

\* C25: in the lists one extract_candidate_entities call returns, no two
\* amounts, no two dates and no two names have overlapping spans, a span
\* that contains or equals another one included.
C25_ScannerNonOverlap ==
  (pc = "done" /\ call.fn = "extract_candidate_entities")
    => /\ NoOverlap(ret.amounts)
       /\ NoOverlap(ret.dates)
       /\ NoOverlap(ret.names)


\* ------------------------------------------------------------------------
\* AirbnbEmailClassifier.train and classify_email (lines 207-223, 254-266)
\* ------------------------------------------------------------------------
\* lines 30-37: the label of each category, and line 38, its inverse
label_encoder ==
  [c \in Categories |->
     CASE c = "booking_confirmation" -> 0
       [] c = "booking_reminder" -> 1
       [] c = "payout" -> 2
       [] c = "cancellation" -> 3
       [] c = "change_request" -> 4
       [] OTHER -> 5]

label_decoder == [v \in 0..5 |-> CHOOSE c \in Categories : label_encoder[c] = v]

RECURSIVE Ascending(_)
\* the members of a set of numbers in ascending order
Ascending(S) ==
  IF S = {} THEN <<>> ELSE <<SetMin(S)>> \o Ascending(S \ {SetMin(S)})

\* lines 217-223: the forest fitted to the labels y of the corpus; its
\* classes_ are the labels that occur, in ascending order
train(y) == [classes_ |-> Ascending(y)]

\* predict: the class whose column of predict_proba is the largest, the first
\* such column on a tie
predict(classifier, probability) ==
  classifier.classes_[SetMin({i \in 1..Len(probability) :
                               \A j \in 1..Len(probability) : probability[j] <= probability[i]})]

\* lines 260-266: the label predicted, decoded, and the entry of the
\* probability row at the index that is the label itself; an index beyond
\* the row raises IndexError
classify_email(classifier, probability) ==
  LET prediction == predict(classifier, probability)
  IN IF prediction >= Len(probability)
       THEN [raised |-> TRUE, email_type |-> "none", confidence |-> Absent]
       ELSE [raised |-> FALSE, email_type |-> label_decoder[prediction],
             confidence |-> probability[prediction + 1]]

\* probabilities are counted in units of 1 / ProbSteps
ProbSteps == 3

RECURSIVE SumSeq(_)
SumSeq(p) == IF p = <<>> THEN 0 ELSE Head(p) + SumSeq(Tail(p))

\* the rows predict_proba can return for n classes
ProbRows(n) ==
  {p \in [1..n -> 0..ProbSteps] : SumSeq(p) = ProbSteps}

Corpora == {y \in SUBSET (0..5) : y # {}}

InitClassify ==
  /\ pc = "call"
  /\ call \in {[fn |-> "classify_email", classifier |-> train(y), probability |-> p] :
                 y \in Corpora, p \in UNION {ProbRows(n) : n \in 1..6}}
  /\ Len(call.probability) = Len(call.classifier.classes_)
  /\ ret = <<>>
  /\ classifier_file = TRUE
  /\ NoEngine
  /\ NoExtractor

ClassifyEmail ==
  /\ pc = "call"
  /\ ret' = classify_email(call.classifier, call.probability)
  /\ pc' = "done"
  /\ UNCHANGED <<call, classifier_file, email_date, scanning_year, today,
                 month, day, year_out, email_type, subject, body, data>>
  /\ UNCHANGED mlVars

NextClassify == ClassifyEmail

SpecClassify == InitClassify /\ [][NextClassify]_vars

\* the probability the model gives to the category of label v: its column
\* in the row, 0 when the model has no such class
ProbabilityOf(classifier, probability, v) ==
  LET cols == {i \in 1..Len(probability) : classifier.classes_[i] = v}
  IN IF cols = {} THEN 0 ELSE probability[CHOOSE i \in cols : TRUE]

\* C27: for every trained model, one trained on a corpus that lacks some of
\* the six categories included, classify_email returns one of the six
\* categories with the model's probability for that category, which is the
\* largest probability of the row and lies in [0,1].
C27_ClassifierResult ==
  (pc = "done" /\ call.fn = "classify_email")
    => /\ ~ret.raised
       /\ ret.email_type \in Categories
       /\ ret.confidence
            = ProbabilityOf(call.classifier, call.probability, label_encoder[ret.email_type])
       /\ \A i \in 1..Len(call.probability) : call.probability[i] <= ret.confidence
       /\ ret.confidence \in 0..ProbSteps


\* ------------------------------------------------------------------------
\* The range of get_reference_year (SpecYear)
\* ------------------------------------------------------------------------
\* the candidate is a date both in the anchor's year and in the year after
ValidInCandidateYears ==
  LET ref == reference_date(email_date, scanning_year, today)
  IN ValidYMD(ref.y, month, day) /\ ValidYMD(ref.y + 1, month, day)

\* C28: for every anchor and every (month, day) that is a date in the
\* candidate years, get_reference_year returns the anchor's year or the year
\* after it, never the year before, and the resolved date lies from 0 to 366
\* days after the anchor.
C28_YearRange ==
  (pc = "done" /\ ValidInCandidateYears)
    => LET ref == reference_date(email_date, scanning_year, today)
           ahead == DaysBetween([y |-> year_out, m |-> month, d |-> day], ref)
       IN /\ year_out \in {ref.y, ref.y + 1}
          /\ 0 <= ahead
          /\ ahead <= 366

\* anchor 2025-03-10, candidate 03/01: resolved 2026, 356 days ahead
C28_Witness ==
  /\ pc = "done"
  /\ ValidInCandidateYears
  /\ email_date = [y |-> 2025, m |-> 3, d |-> 10]
  /\ month = 3 /\ day = 1
  /\ year_out = 2026


\* ------------------------------------------------------------------------
\* worker_mode as a line protocol (ml_classifier_bridge.py, lines 125-181)
\* ------------------------------------------------------------------------
\* Here `call` is the worker's side of stdin,
\*   [stdin: the lines not yet read, consumed: the lines read so far,
\*    ended: why the worker stopped, "no" while it runs],
\* and `ret` is what it has written to stdout, line by line. A line of
\* input is one of
\*   blank            nothing but whitespace
\*   not_json         json.loads raises
\*   not_object       JSON, but not an object: .get raises AttributeError
\*   request          an object that classify_and_extract answers
\*   failing_request  an object on which classify_and_extract raises
LineKinds == {"blank", "not_json", "not_object", "request", "failing_request"}

MaxInput == 3

InputStreams == UNION {[1..n -> LineKinds] : n \in 0..MaxInput}

ReadyLine == [kind |-> "READY", of |-> 0]

\* lines 150-174: what the loop body writes for the n-th line of input
worker_response(line, n) ==
  CASE line = "blank" -> <<>>
    [] line = "request" -> <<[kind |-> "result", of |-> n]>>
    [] OTHER -> <<[kind |-> "error", of |-> n]>>

InitWorker ==
  /\ pc = "start"
  /\ call \in {[stdin |-> i, consumed |-> <<>>, ended |-> "no"] : i \in InputStreams}
  /\ ret = <<>>
  /\ classifier_file \in BOOLEAN
  /\ NoEngine
  /\ NoExtractor

\* lines 128-141: exit(1) without the classifier file, else the bridge is
\* built and READY is written
WorkerStartup ==
  /\ pc = "start"
  /\ IF classifier_file
       THEN /\ pc' = "ready"
            /\ ret' = Append(ret, ReadyLine)
            /\ UNCHANGED call
       ELSE /\ pc' = "exited"
            /\ call' = [call EXCEPT !.ended = "no_model"]
            /\ UNCHANGED ret
  /\ UNCHANGED <<classifier_file, email_date, scanning_year, today,
                 month, day, year_out, email_type, subject, body, data>>
  /\ UNCHANGED mlVars

\* lines 146-148: readline; the loop is left at end of input
WorkerReadLine ==
  /\ pc = "ready"
  /\ IF call.stdin = <<>>
       THEN /\ pc' = "exited"
            /\ call' = [call EXCEPT !.ended = "eof"]
       ELSE /\ pc' = "serving"
            /\ call' = [call EXCEPT !.stdin = Tail(call.stdin),
                                    !.consumed = Append(call.consumed, Head(call.stdin))]
  /\ UNCHANGED <<ret, classifier_file, email_date, scanning_year, today,
                 month, day, year_out, email_type, subject, body, data>>
  /\ UNCHANGED mlVars

\* lines 150-174: the line is skipped, or served and answered
WorkerAnswer ==
  /\ pc = "serving"
  /\ pc' = "ready"
  /\ ret' = ret \o worker_response(call.consumed[Len(call.consumed)], Len(call.consumed))
  /\ UNCHANGED <<call, classifier_file, email_date, scanning_year, today,
                 month, day, year_out, email_type, subject, body, data>>
  /\ UNCHANGED mlVars

\* lines 176-178: KeyboardInterrupt anywhere in the loop, sys.exit(0)
WorkerInterrupt ==
  /\ pc \in {"ready", "serving"}
  /\ pc' = "exited"
  /\ call' = [call EXCEPT !.ended = "interrupt"]
  /\ UNCHANGED <<ret, classifier_file, email_date, scanning_year, today,
                 month, day, year_out, email_type, subject, body, data>>
  /\ UNCHANGED mlVars

NextWorker == WorkerStartup \/ WorkerReadLine \/ WorkerAnswer \/ WorkerInterrupt

SpecWorker == InitWorker /\ [][NextWorker]_vars

\* the input lines whose turn in the loop is over
ServedLines ==
  IF pc = "serving" THEN Len(call.consumed) - 1 ELSE Len(call.consumed)

RECURSIVE NonBlankUpTo(_, _)
\* the numbers of the non-blank lines among the first n, in order
NonBlankUpTo(lines, n) ==
  IF n = 0 THEN <<>>
  ELSE IF lines[n] = "blank" THEN NonBlankUpTo(lines, n - 1)
  ELSE Append(NonBlankUpTo(lines, n - 1), n)

\* stdout is READY followed by one result or error per non-blank line
\* served, in the order of the lines
ReadyThenAnswers(lines, n) ==
  /\ Len(ret) = 1 + Len(NonBlankUpTo(lines, n))
  /\ ret[1] = ReadyLine
  /\ \A i \in 2..Len(ret) :
       /\ ret[i].kind \in {"result", "error"}
       /\ ret[i].of = NonBlankUpTo(lines, n)[i - 1]

WorkerRan == pc \in {"ready", "serving", "exited"}

\* with the classifier file in place and no interrupt: READY once and
\* first, one answer per non-blank line in order, the loop left at end of
\* input only
UninterruptedWorkerProtocol ==
  (WorkerRan /\ classifier_file /\ call.ended # "interrupt")
    => /\ ReadyThenAnswers(call.consumed, ServedLines)
       /\ pc = "exited" => call.stdin = <<>> /\ call.ended = "eof"

\* C29: in worker mode READY is written exactly once and before any
\* response, every non-blank line read gets exactly one result or error
\* line, in the order of the lines, blank lines get none, a failing request
\* does not keep later ones from being answered, and the loop ends at end
\* of input only.
C29_WorkerProtocol ==
  WorkerRan
    => /\ ReadyThenAnswers(call.consumed, ServedLines)
       /\ pc = "exited" => call.stdin = <<>>


\* ------------------------------------------------------------------------
\* The form of the dates a record carries (SpecDates)
\* ------------------------------------------------------------------------
\* a "YYYY-MM-DD" string that is a date of the calendar
IsoCalendarDate(dt) == DOMAIN dt = {"y", "m", "d"} /\ ValidDate(dt)

\* C30: every checkInDate and checkOutDate of a record emitted for a
\* booking_confirmation, payout, cancellation or change_request is a
\* YYYY-MM-DD string that is a valid calendar date.
C30_DateFormat ==
  (Emitted /\ email_type \in {"booking_confirmation", "payout", "cancellation", "change_request"})
    => /\ Has(data.checkInDate) => IsoCalendarDate(data.checkInDate)
       /\ Has(data.checkOutDate) => IsoCalendarDate(data.checkOutDate)

====
